---- MODULE Spec2Model ----
(***************************************************************************)
(* Entity / link graph, DataSet overrides, path resolution and attribute   *)
(* visibility of mara_schema (mara_schema/schema.py).                      *)
(*                                                                         *)
(* An EntityLink instance is identified by <<owner entity, position in the *)
(* owner's entity_links list>>; an Attribute instance by its position in   *)
(* its entity's attributes list.  A path is a sequence of link instances.  *)
(* Python's None is the empty sequence where a value may be absent.        *)
(***************************************************************************)
EXTENDS Integers, Sequences, FiniteSets, TLC

\* ---------------------------------------------------------------- bounds
MaxLinks == 2          \* EntityLink instances in the whole graph
MaxDepth == 2          \* largest max_entity_link_depth a DataSet is built with
MaxSpecLen == 2        \* segments in a path specification
MaxOverrides == 1      \* exclude_path / include_path calls that add a path
MaxAttributeCalls == 3 \* attributes added plus entries of the attribute overrides
MaxOperands == 2       \* bracketed metric names in a formula

Entities == {"Customer", "Order"}
Prefixes == {"", "First order"}
AttributeNames == {"Age", "Order date"}
MetricNames == {"# Orders", "Revenue (lifetime)", "Revenue per order"}
Aggregations == {"sum", "count"}

None == <<>>

VARIABLES
    entities,    \* [Entities -> [attributes, entity_links]]: the Entity objects
    data_set,    \* the DataSet object
    phase,       \* "definition", then "walking" (SpecWalk only) and "resolved",
                 \* "sql generated", "fact table generated", or "cube built" and
                 \* "cube document"
    paths,       \* list returned by paths_to_connected_entities
    attributes,  \* dict returned by connected_attributes
    with_personal_data,  \* the include_personal_data argument of that call
    excluded_entirely,   \* history: path |-> number of attributes its last entity
                         \* had when exclude_attributes was last called for the
                         \* path, if that call had no attribute list
    sql,         \* the statement returned by the last SQL generation call
    cube,        \* the Cube built by the last cube generation call
    walk,        \* the running traversal of paths_to_connected_entities
    raised,      \* the exception the last definition call raised, "" if none;
                 \* kept where the caller of the call looks at it (SpecCalls)
    normalized   \* the argument and the results of the calls of normalize_name
                 \* (SpecNormalize only)

vars == <<entities, data_set, phase, paths, attributes, with_personal_data,
          excluded_entirely, sql, cube, walk, raised, normalized>>

\* ------------------------------------------------------------ sequences
Last(s) == s[Len(s)]

Prefix(s, k) == SubSeq(s, 1, k)

Contains(s, x) == \E i \in 1..Len(s) : s[i] = x

IsPrefixOf(p, q) == Len(p) <= Len(q) /\ Prefix(q, Len(p)) = p

SeqsUpTo(S, n) == UNION {[1..k -> S] : k \in 0..n}

\* ------------------------------------------------------------ strings
\* A name is a Python string; where the code takes it apart it is modelled by
\* its str.split(' '): the sequence of its words, with an empty word between
\* two adjacent spaces, before a leading and after a trailing space.
split(string) ==
    CASE string = "" -> <<"">>
      [] string = "First order" -> <<"First", "order">>
      [] string = "Order item" -> <<"Order", "item">>
      [] string = "Order date" -> <<"Order", "date">>
      [] OTHER -> <<string>>

\* str.lower of a word.
lower(word) ==
    CASE word = "First" -> "first"
      [] word = "Order" -> "order"
      [] word = "Customer" -> "customer"
      [] word = "Age" -> "age"
      [] word = "Status" -> "status"
      [] word = "ID" -> "id"
      [] OTHER -> word

\* string[0].upper() + string[1::] of a word.
upper_first(word) ==
    CASE word = "first" -> "First"
      [] word = "order" -> "Order"
      [] word = "customer" -> "Customer"
      [] word = "age" -> "Age"
      [] word = "status" -> "Status"
      [] word = "item" -> "Item"
      [] word = "date" -> "Date"
      [] word = "id" -> "Id"
      [] OTHER -> word

\* len of a word.
len(word) ==
    CASE word = "" -> 0
      [] word = "ID" -> 2
      [] word = "Age" -> 3
      [] word \in {"item", "date"} -> 4
      [] word \in {"First", "first", "Order", "order"} -> 5
      [] word \in {"Status", "status"} -> 6
      [] OTHER -> 8

\* len of a string: its words and the spaces between them.
RECURSIVE string_len(_)
string_len(words) ==
    IF Len(words) = 1 THEN len(words[1])
    ELSE len(Head(words)) + 1 + string_len(Tail(words))

\* re.sub(r'\b(\w+)( \1\b)+', r'\1', string): a word repeated after single
\* spaces is kept once.
RECURSIVE remove_repeating_words(_)
remove_repeating_words(words) ==
    IF Len(words) < 2 THEN words
    ELSE IF words[1] # "" /\ words[1] = words[2]
    THEN remove_repeating_words(Tail(words))
    ELSE <<Head(words)>> \o remove_repeating_words(Tail(words))

\* str.lstrip: the empty words before the first word go (of a blank string the
\* empty string is left).
RECURSIVE lstrip(_)
lstrip(words) ==
    IF Len(words) > 1 /\ Head(words) = "" THEN lstrip(Tail(words)) ELSE words

\* re.sub('\s\s+', ' ', string): an empty word followed by another word marks
\* two adjacent spaces, of which one is left.
RECURSIVE collapse_spaces(_)
collapse_spaces(words) ==
    IF Len(words) < 2 THEN words
    ELSE IF words[2] = "" /\ Len(words) > 2
    THEN collapse_spaces(<<Head(words)>> \o Tail(Tail(words)))
    ELSE <<Head(words)>> \o collapse_spaces(Tail(words))

init_cap(words) == <<upper_first(Head(words))>> \o Tail(words)

\* Names longer than this are cut and get a hash appended.
MaxNameLength == 63

\* string[:55] + md5(string)[:8] is modelled by the marked string: different
\* strings get different names.
limit_column_length(words) ==
    IF string_len(words) > MaxNameLength THEN <<"[:55] + md5">> \o words ELSE words

normalize_name(words) ==
    limit_column_length(init_cap(collapse_spaces(lstrip(remove_repeating_words(words)))))

\* ' '.join(strings)
RECURSIVE join(_)
join(strings) ==
    IF strings = <<>> THEN <<"">>
    ELSE IF Len(strings) = 1 THEN Head(strings)
    ELSE Head(strings) \o join(Tail(strings))

\* ------------------------------------------- strings, by character
\* Where the length of a name matters, a string is the sequence of its
\* characters. A character is <<c>>; the i-th character of the hex digest of a
\* string is <<"md5", i, string>>, a word character that differs from every
\* character of a name and from the digest characters of every other string.
MaxWords == 3            \* words of a name
LongWordLength == 31     \* characters of the long word
MaxNormalizeCalls == 2   \* times a name is normalized over

Chars(letters) == [i \in DOMAIN letters |-> <<letters[i]>>]

Space == <<" ">>

\* hashlib.md5(string.encode('utf-8')).hexdigest()
hexdigest(string) == [i \in 1..32 |-> <<"md5", i, string>>]

\* string[:stop], where a negative stop counts from the end.
slice_to(string, stop) ==
    LET end == IF stop >= 0 THEN stop ELSE Len(string) + stop
    IN IF end <= 0 THEN <<>>
       ELSE IF end >= Len(string) THEN string
       ELSE SubSeq(string, 1, end)

\* str.upper of a letter.
upper(char) ==
    CASE char = <<"a">> -> <<"A">>
      [] char = <<"b">> -> <<"B">>
      [] char = <<"x">> -> <<"X">>
      [] OTHER -> char

\* The k-th smallest of a set of positions.
Nth(positions, k) ==
    CHOOSE i \in positions : Cardinality({j \in positions : j < i}) = k - 1

\* The characters of the string at the positions, in order.
CharsAt(string, positions) ==
    [k \in 1..Cardinality(positions) |-> string[Nth(positions, k)]]

\* string.split(' '): what is before, between and after the spaces.
string_split(string) ==
    LET spaces == {i \in 1..Len(string) : string[i] = Space}
        ends == spaces \cup {0, Len(string) + 1}
    IN [k \in 1..Cardinality(spaces) + 1 |->
           SubSeq(string, Nth(ends, k) + 1, Nth(ends, k + 1) - 1)]

\* ' '.join(words)
RECURSIVE string_join(_)
string_join(words) ==
    IF words = <<>> THEN <<>>
    ELSE IF Len(words) = 1 THEN Head(words)
    ELSE Head(words) \o <<Space>> \o string_join(Tail(words))

RECURSIVE without_repeating_words(_)
without_repeating_words(words) ==
    IF Len(words) < 2 THEN words
    ELSE IF words[1] # <<>> /\ words[1] = words[2]
    THEN without_repeating_words(Tail(words))
    ELSE <<Head(words)>> \o without_repeating_words(Tail(words))

\* re.sub(r'\b(\w+)( \1\b)+', r'\1', string): a word that is repeated after
\* single spaces, in the same case, is kept once.
string_remove_repeating_words(string) ==
    string_join(without_repeating_words(string_split(string)))

NonSpaces(string) == {i \in 1..Len(string) : string[i] # Space}

Least(positions) == Nth(positions, 1)

Greatest(positions) == Nth(positions, Cardinality(positions))

\* str.lstrip
string_lstrip(string) ==
    IF NonSpaces(string) = {} THEN <<>>
    ELSE SubSeq(string, Least(NonSpaces(string)), Len(string))

\* str.strip
string_strip(string) ==
    IF NonSpaces(string) = {} THEN <<>>
    ELSE SubSeq(string, Least(NonSpaces(string)), Greatest(NonSpaces(string)))

\* re.sub('\s\s+', ' ', string): of adjacent spaces one is left.
remove_duplicate_whitespace(string) ==
    CharsAt(string, {i \in 1..Len(string) :
                        ~(string[i] = Space /\ i < Len(string) /\ string[i + 1] = Space)})

\* string[0].upper() + string[1::]
first_letter_capitalize(string) == <<upper(Head(string))>> \o Tail(string)

\* attribute.normalize_name before the length is limited.
attribute_name_before_limit(name) ==
    first_letter_capitalize(
        remove_duplicate_whitespace(string_strip(string_remove_repeating_words(name))))

\* attribute.normalize_name(name, max_length); a max_length of 0 is no limit.
attribute_normalize_name(name, max_length) ==
    LET string == attribute_name_before_limit(name)
    IN IF max_length # 0 /\ Len(string) > max_length
       THEN slice_to(string, max_length - 8) \o slice_to(hexdigest(string), 8)
       ELSE string

\* schema.normalize_name before limit_column_length.
schema_name_before_limit(name) ==
    first_letter_capitalize(
        remove_duplicate_whitespace(string_lstrip(string_remove_repeating_words(name))))

\* schema.normalize_name(attribute_name_or_table_alias), by character.
schema_normalize_name(name) ==
    LET string == schema_name_before_limit(name)
    IN IF Len(string) > MaxNameLength
       THEN slice_to(string, 55) \o slice_to(hexdigest(string), 8)
       ELSE string

\* The words that the names are made of: a word in lower case, the same word
\* capitalized, the empty word (of two adjacent spaces) and a long word.
NameWords == {Chars(<<"a", "b">>), Chars(<<"A", "b">>), <<>>, [i \in 1..LongWordLength |-> <<"x">>]}

\* The names: normalize_name raises an IndexError for a name without a word
\* (string[0] of the empty string), so a name has one.
Names ==
    {string_join(words) : words \in {words \in SeqsUpTo(NameWords, MaxWords) :
                                        \E i \in 1..Len(words) : words[i] # <<>>}}

\* The max_length arguments: none (0), shorter than a digest, longer, default.
MaxLengths == {0, 5, 10, MaxNameLength}

\* ------------------------------------------------------------ Entity
\* Entity.table_name, by default name.lower().replace(' ', '_'): the sequence
\* of the parts that the underscores join.
table_name(name) == [i \in DOMAIN split(name) |-> lower(split(name)[i])]

\* Entity.pk_column_name, by default table_name + '_id'.
pk_column_name(name) == table_name(name) \o <<"id">>

\* Entity.schema_name of the entities of the examples.
schema_name(name) == "e_dim"

\* A link object created by link_entity without fk_column.
EntityLink(target_entity, prefix) ==
    [target_entity |-> target_entity, prefix |-> prefix,
     fk_column |-> table_name(target_entity) \o <<"fk">>]

\* An attribute object created by add_attribute without column_name: the
\* column is name.lower().replace(' ', '_'), the parts that the underscores join.
AddedAttribute(name, type, high_cardinality, personal_data, accessible_via_entity_link) ==
    [name |-> name,
     column_name |-> [i \in DOMAIN split(name) |-> lower(split(name)[i])],
     type |-> type,
     high_cardinality |-> high_cardinality,
     personal_data |-> personal_data,
     accessible_via_entity_link |-> accessible_via_entity_link]

\* An attribute object created by add_attribute without column_name and
\* high_cardinality.
AttributeOfType(name, type, personal_data, accessible_via_entity_link) ==
    AddedAttribute(name, type, FALSE, personal_data, accessible_via_entity_link)

\* An attribute object created by add_attribute without column_name and type.
Attribute(name, personal_data, accessible_via_entity_link) ==
    AttributeOfType(name, None, personal_data, accessible_via_entity_link)

NumAttributes(es) ==
    LET RECURSIVE Sum(_)
        Sum(S) == IF S = {} THEN 0
                  ELSE LET e == CHOOSE x \in S : TRUE
                       IN Len(es[e].attributes) + Sum(S \ {e})
    IN Sum(DOMAIN es)

\* Entity.find_attribute: the first attribute of `entity` with that name.
find_attribute(es, entity, attribute_name) ==
    LET found == {i \in 1..Len(es[entity].attributes) :
                     es[entity].attributes[i].name = attribute_name}
    IN IF found = {} THEN [ok |-> FALSE, raised |-> "KeyError"]
       ELSE [ok |-> TRUE, attribute |-> CHOOSE i \in found : \A j \in found : i <= j]

\* A link instance <<owner, i>> of the graph `es`.
LinkOf(es, l) == es[l[1]].entity_links[l[2]]

TargetOf(es, l) == LinkOf(es, l).target_entity

NumLinks(es) ==
    LET RECURSIVE Sum(_)
        Sum(S) == IF S = {} THEN 0
                  ELSE LET e == CHOOSE x \in S : TRUE
                       IN Len(es[e].entity_links) + Sum(S \ {e})
    IN Sum(DOMAIN es)

\* Entity.find_entity_link: the links of `entity` that match, in list order.
MatchingLinks(es, entity, target_entity_name, prefix) ==
    SelectSeq([i \in 1..Len(es[entity].entity_links) |-> <<entity, i>>],
              LAMBDA l : /\ TargetOf(es, l) = target_entity_name
                         /\ (prefix = None \/ prefix = <<LinkOf(es, l).prefix>>))

find_entity_link_taking_first_match(es, entity, target_entity_name, prefix) ==
    LET entity_links == MatchingLinks(es, entity, target_entity_name, prefix)
    IN IF entity_links = <<>> THEN [ok |-> FALSE, raised |-> "LookupError"]
       ELSE [ok |-> TRUE, link |-> entity_links[1]]

find_entity_link(es, entity, target_entity_name, prefix) ==
    LET entity_links == MatchingLinks(es, entity, target_entity_name, prefix)
    IN IF entity_links = <<>> THEN [ok |-> FALSE, raised |-> "LookupError"]
       ELSE IF Len(entity_links) > 1 THEN [ok |-> FALSE, raised |-> "LookupError"]
       ELSE [ok |-> TRUE, link |-> entity_links[1]]

\* ------------------------------------------------------------ DataSet
\* A segment of a path specification: <<name>> is a plain string,
\* <<name, prefix>> a tuple of two strings.
Segments == {<<n>> : n \in Entities} \cup {<<n, p>> : n \in Entities, p \in Prefixes}

PathSpecs == SeqsUpTo(Segments, MaxSpecLen)

\* The path specifications of at most as many segments as the example graph
\* has links.
ExamplePathSpecs == SeqsUpTo(Segments, Cardinality(Entities))

RECURSIVE _parse_path(_, _, _)
_parse_path(es, entity, path) ==
    IF path = <<>> THEN [ok |-> TRUE, path |-> <<>>]
    ELSE IF ~(Len(path[1]) \in {1, 2}) THEN [ok |-> FALSE, raised |-> "TypeError"]
    ELSE LET target_entity_name == path[1][1]
             prefix == IF Len(path[1]) = 1 THEN None ELSE <<path[1][2]>>
             found == find_entity_link(es, entity, target_entity_name, prefix)
         IN IF ~found.ok THEN found
            ELSE LET rest == _parse_path(es, TargetOf(es, found.link), Tail(path))
                 IN IF ~rest.ok THEN rest
                    ELSE [ok |-> TRUE, path |-> <<found.link>> \o rest.path]

\* ------------------------------------------------- path resolution
\* Variants of path_survives and _append_path_including_subpaths with one slip
\* each; the properties below are checked to tell them from the code.
path_survives_circle_check_skips_last(ds, current_path, entity_link) ==
    LET path == Append(current_path, entity_link)
    IN /\ ~Contains(Prefix(current_path, Len(current_path) - 1), entity_link)
       /\ path \notin ds.excluded_paths
       /\ ~(/\ ds.max_entity_link_depth # None
            /\ Len(path) > ds.max_entity_link_depth[1]
            /\ path \notin ds.included_paths)

path_survives_excludes_parent(ds, current_path, entity_link) ==
    LET path == Append(current_path, entity_link)
    IN /\ ~Contains(current_path, entity_link)
       /\ current_path \notin ds.excluded_paths
       /\ ~(/\ ds.max_entity_link_depth # None
            /\ Len(path) > ds.max_entity_link_depth[1]
            /\ path \notin ds.included_paths)

path_survives_depth_off_by_one(ds, current_path, entity_link) ==
    LET path == Append(current_path, entity_link)
    IN /\ ~Contains(current_path, entity_link)
       /\ path \notin ds.excluded_paths
       /\ ~(/\ ds.max_entity_link_depth # None
            /\ Len(path) > ds.max_entity_link_depth[1] + 1
            /\ path \notin ds.included_paths)

\* The condition under which traverse_graph registers `path` and descends.
path_survives(ds, current_path, entity_link) ==
    LET path == Append(current_path, entity_link)
    IN /\ ~Contains(current_path, entity_link)
       /\ path \notin ds.excluded_paths
       /\ ~(/\ ds.max_entity_link_depth # None
            /\ Len(path) > ds.max_entity_link_depth[1]
            /\ path \notin ds.included_paths)

RECURSIVE append_subpaths_from(_, _, _)
append_subpaths_from(ps, path, i) ==
    IF i > Len(path) THEN ps
    ELSE append_subpaths_from(
             IF ~Contains(ps, Prefix(path, i)) THEN Append(ps, Prefix(path, i)) ELSE ps,
             path, i + 1)

RECURSIVE append_subpaths_unchecked(_, _, _)
append_subpaths_unchecked(ps, path, i) ==
    IF i > Len(path) THEN ps
    ELSE append_subpaths_unchecked(Append(ps, Prefix(path, i)), path, i + 1)

_append_path_always(ps, path) == append_subpaths_unchecked(ps, path, 1)

_append_path_skipping_first_subpath(ps, path) == append_subpaths_from(ps, path, 2)

_append_path_including_subpaths(ps, path) == append_subpaths_from(ps, path, 1)

RECURSIVE traverse_links(_, _, _, _, _, _)
traverse_graph(es, ds, entity, current_path, ps) ==
    traverse_links(es, ds, entity, current_path, 1, ps)

\* The traversal that takes the links of an entity from the last to the first.
RECURSIVE traverse_links_backwards(_, _, _, _, _, _)
traverse_links_backwards(es, ds, entity, current_path, i, ps) ==
    IF i > Len(es[entity].entity_links) THEN ps
    ELSE LET entity_link == <<entity, Len(es[entity].entity_links) + 1 - i>>
             path == Append(current_path, entity_link)
             \* the list after the traversal from `path` on; it holds `path`, and
             \* is computed before the next link is taken
             below == traverse_graph(es, ds, TargetOf(es, entity_link), path,
                                     _append_path_including_subpaths(ps, path))
         IN IF path_survives(ds, current_path, entity_link)
            THEN IF Len(below) > 0
                 THEN traverse_links_backwards(es, ds, entity, current_path, i + 1, below)
                 ELSE below
            ELSE traverse_links_backwards(es, ds, entity, current_path, i + 1, ps)

traverse_links(es, ds, entity, current_path, i, ps) ==
    IF i > Len(es[entity].entity_links) THEN ps
    ELSE LET entity_link == <<entity, i>>
             path == Append(current_path, entity_link)
             \* the list after the traversal from `path` on; it holds `path`, and
             \* is computed before the next link is taken
             below == traverse_graph(es, ds, TargetOf(es, entity_link), path,
                                     _append_path_including_subpaths(ps, path))
         IN IF path_survives(ds, current_path, entity_link)
            THEN IF Len(below) > 0
                 THEN traverse_links(es, ds, entity, current_path, i + 1, below)
                 ELSE below
            ELSE traverse_links(es, ds, entity, current_path, i + 1, ps)

paths_to_connected_entities(es, ds) == traverse_graph(es, ds, ds.entity, <<>>, <<>>)

\* connected_entities(entity): traverse_graph adds the target of each link that
\* is not in `result` yet and goes on from it; `result` is shared by all calls.
RECURSIVE traverse_entities(_, _, _, _)
traverse_entities(es, entity, i, result) ==
    IF i > Len(es[entity].entity_links) THEN result
    ELSE LET target_entity == es[entity].entity_links[i].target_entity
         IN IF target_entity \notin result
            THEN traverse_entities(es, entity, i + 1,
                     traverse_entities(es, target_entity, 1, result \cup {target_entity}))
            ELSE traverse_entities(es, entity, i + 1, result)

\* The discovery that looks at the first link of an entity only.
connected_entities_over_first_links(es, entity) ==
    IF es[entity].entity_links = <<>> THEN {entity}
    ELSE {entity, es[entity].entity_links[1].target_entity}

connected_entities(es, entity) == traverse_entities(es, entity, 1, {entity})

\* DataSet.paths_to_connected_entities of data_set.py: the same traversal for a
\* DataSet that has neither max_entity_link_depth nor included_paths.
DataSet_paths_to_connected_entities(es, ds) ==
    paths_to_connected_entities(
        es, [ds EXCEPT !.max_entity_link_depth = None, !.included_paths = {}])

\* ------------------------------------------------------------ actions
DataSet(entity, max_entity_link_depth) ==
    [entity |-> entity,
     max_entity_link_depth |-> max_entity_link_depth,
     excluded_paths |-> {},
     included_paths |-> {},
     included_attributes |-> <<>>,
     excluded_attributes |-> <<>>,
     metrics |-> <<>>]

\* The entity names are interchangeable, so every rooted graph is covered, up to
\* renaming, by the graphs rooted at one of them.
Root == "Customer"

Depths == {None} \cup {<<n>> : n \in 0..MaxDepth}

Init ==
    /\ entities = [e \in Entities |-> [attributes |-> <<>>, entity_links |-> <<>>]]
    /\ \E d \in Depths : data_set = DataSet(Root, d)
    /\ phase = "definition"
    /\ paths = <<>>
    /\ attributes = <<>>
    /\ with_personal_data = TRUE
    /\ excluded_entirely = <<>>
    /\ sql = <<>>
    /\ cube = <<>>
    /\ walk = [stack |-> <<>>, paths |-> <<>>]
    /\ raised = ""
    /\ normalized = <<>>

LinkEntity(entity, target_entity, prefix) ==
    /\ phase = "definition"
    /\ NumLinks(entities) < MaxLinks
    /\ entities' = [entities EXCEPT ![entity].entity_links =
                        Append(@, EntityLink(target_entity, prefix))]
    /\ UNCHANGED <<normalized, data_set, phase, paths, attributes, with_personal_data,
                 excluded_entirely, sql, cube, walk, raised>>

\* A definition call returns the DataSet it leaves behind and the exception it
\* raises ("" when it returns normally).
Returned(ds) == [data_set |-> ds, raised |-> ""]

Raised(ds, exception) == [data_set |-> ds, raised |-> exception]

exclude_path(es, ds, path) ==
    LET parsed == _parse_path(es, ds.entity, path)
    IN IF ~parsed.ok THEN Raised(ds, parsed.raised)
       ELSE Returned([ds EXCEPT !.excluded_paths = @ \cup {parsed.path}])

include_path(es, ds, path) ==
    LET parsed == _parse_path(es, ds.entity, path)
    IN IF ~parsed.ok THEN Raised(ds, parsed.raised)
       ELSE Returned([ds EXCEPT !.included_paths = @ \cup {parsed.path}])

\* [entity.find_attribute(attribute_name) for attribute_name in attribute_names]
RECURSIVE find_attributes(_, _, _)
find_attributes(es, entity, attribute_names) ==
    IF attribute_names = <<>> THEN [ok |-> TRUE, attributes |-> <<>>]
    ELSE LET first == find_attribute(es, entity, Head(attribute_names))
         IN IF ~first.ok THEN first
            ELSE LET rest == find_attributes(es, entity, Tail(attribute_names))
                 IN IF ~rest.ok THEN rest
                    ELSE [ok |-> TRUE, attributes |-> <<first.attribute>> \o rest.attributes]

\* An entry of excluded_attributes or included_attributes: a list of attributes
\* (positions in the attribute list of the path's last entity) or, with `alias`,
\* the attribute list object of that entity itself.
OwnList(attrs) == [alias |-> FALSE, items |-> attrs]

EntityList == [alias |-> TRUE, items |-> <<>>]

\* Python's `not attribute_names`: None or an empty list.
IsFalsy(attribute_names) == attribute_names = None

exclude_attributes_copying_list(es, ds, path, attribute_names) ==
    LET parsed == _parse_path(es, ds.entity, path)
    IN IF ~parsed.ok THEN Raised(ds, parsed.raised)
       ELSE IF parsed.path = <<>> THEN Raised(ds, "IndexError")
       ELSE LET entity == TargetOf(es, Last(parsed.path))
                found == IF IsFalsy(attribute_names)
                         THEN [ok |-> TRUE,
                               attributes |-> [i \in 1..Len(es[entity].attributes) |-> i]]
                         ELSE find_attributes(es, entity, attribute_names)
            IN IF ~found.ok THEN Raised(ds, found.raised)
               ELSE Returned([ds EXCEPT !.excluded_attributes =
                                  (parsed.path :> OwnList(found.attributes)) @@ @])

exclude_attributes(es, ds, path, attribute_names) ==
    LET parsed == _parse_path(es, ds.entity, path)
    IN IF ~parsed.ok THEN Raised(ds, parsed.raised)
       ELSE IF parsed.path = <<>> THEN Raised(ds, "IndexError")
       ELSE IF IsFalsy(attribute_names)
       THEN Returned([ds EXCEPT !.excluded_attributes = (parsed.path :> EntityList) @@ @])
       ELSE LET found == find_attributes(es, TargetOf(es, Last(parsed.path)), attribute_names)
            IN IF ~found.ok THEN Raised(ds, found.raised)
               ELSE Returned([ds EXCEPT !.excluded_attributes =
                                  (parsed.path :> OwnList(found.attributes)) @@ @])

include_attributes(es, ds, path, attribute_names) ==
    LET parsed == _parse_path(es, ds.entity, path)
    IN IF ~parsed.ok THEN Raised(ds, parsed.raised)
       ELSE IF attribute_names = <<>>
       THEN Returned([ds EXCEPT !.included_attributes = (parsed.path :> OwnList(<<>>)) @@ @])
       ELSE IF parsed.path = <<>> THEN Raised(ds, "IndexError")
       ELSE LET found == find_attributes(es, TargetOf(es, Last(parsed.path)), attribute_names)
            IN IF ~found.ok THEN Raised(ds, found.raised)
               ELSE Returned([ds EXCEPT !.included_attributes =
                                  (parsed.path :> OwnList(found.attributes)) @@ @])

\* ---------------------------------------------------------------- metrics
\* data_set.metrics is the dict of the metrics in insertion order: a sequence of
\* metric objects with pairwise different names.  A ComposedMetric holds its
\* parent metric objects; they are given by their names, which never change
\* owner as a name is registered once.
SimpleMetric(name, column_name, aggregation) ==
    [class |-> "SimpleMetric", name |-> name,
     column_name |-> column_name, aggregation |-> aggregation]

ComposedMetric(name, parent_metrics, formula_template) ==
    [class |-> "ComposedMetric", name |-> name,
     parent_metrics |-> parent_metrics, formula_template |-> formula_template]

\* `name in self.metrics`
HasMetric(ds, name) == \E i \in 1..Len(ds.metrics) : ds.metrics[i].name = name

\* `self.metrics[name]`
MetricNamed(ds, name) ==
    ds.metrics[CHOOSE i \in 1..Len(ds.metrics) : ds.metrics[i].name = name]

\* A formula is a sequence of tokens: <<"[]", name>> for `[name]`, and
\* <<symbol>> for one symbol of the text around the bracketed names.
MetricReference(name) == <<"[]", name>>

IsMetricReference(token) == Len(token) = 2

\* formula_split[1::2]: the bracketed names, in order.
RECURSIVE formula_names(_)
formula_names(formula) ==
    IF formula = <<>> THEN <<>>
    ELSE IF IsMetricReference(Head(formula))
    THEN <<Head(formula)[2]>> \o formula_names(Tail(formula))
    ELSE formula_names(Tail(formula))

\* formula_split[0::2]: the pieces of text before, between and after the
\* bracketed names; '{}'.join of them is the formula template.
RECURSIVE formula_texts(_)
formula_texts(formula) ==
    IF formula = <<>> THEN << <<>> >>
    ELSE LET rest == formula_texts(Tail(formula))
         IN IF IsMetricReference(Head(formula)) THEN << <<>> >> \o rest
            ELSE <<<<Head(formula)>> \o Head(rest)>> \o Tail(rest)

add_simple_metric(ds, name, column_name, aggregation) ==
    IF HasMetric(ds, name) THEN Raised(ds, "ValueError")
    ELSE Returned([ds EXCEPT !.metrics =
                       Append(@, SimpleMetric(name, column_name, aggregation))])

\* A variant of add_composed_metric that stores the metric before it looks up
\* the parents; the atomicity of failing calls is checked to tell it from the code.
add_composed_metric_registering_first(ds, name, formula) ==
    IF HasMetric(ds, name) THEN Raised(ds, "ValueError")
    ELSE LET registered == [ds EXCEPT !.metrics =
                               Append(@, ComposedMetric(name, formula_names(formula),
                                                        formula_texts(formula)))]
         IN IF \E i \in 1..Len(formula_names(formula)) :
                   ~HasMetric(ds, formula_names(formula)[i])
            THEN Raised(registered, "ValueError")
            ELSE Returned(registered)

\* A variant of add_composed_metric that looks the parents up among the metrics
\* and the name being defined; the order of the parents is checked to tell it
\* from the code.
add_composed_metric_knowing_own_name(ds, name, formula) ==
    IF HasMetric(ds, name) THEN Raised(ds, "ValueError")
    ELSE IF \E i \in 1..Len(formula_names(formula)) :
                /\ ~HasMetric(ds, formula_names(formula)[i])
                /\ formula_names(formula)[i] # name
    THEN Raised(ds, "ValueError")
    ELSE Returned([ds EXCEPT !.metrics =
                       Append(@, ComposedMetric(name, formula_names(formula),
                                                formula_texts(formula)))])

add_composed_metric(ds, name, formula) ==
    IF HasMetric(ds, name) THEN Raised(ds, "ValueError")
    ELSE IF \E i \in 1..Len(formula_names(formula)) :
                ~HasMetric(ds, formula_names(formula)[i])
    THEN Raised(ds, "ValueError")
    ELSE Returned([ds EXCEPT !.metrics =
                       Append(@, ComposedMetric(name, formula_names(formula),
                                                formula_texts(formula)))])

\* str.format: the texts of the template with one argument in each gap.
RECURSIVE format(_, _)
format(formula_template, arguments) ==
    IF arguments = <<>> THEN Head(formula_template)
    ELSE Head(formula_template) \o Head(arguments)
             \o format(Tail(formula_template), Tail(arguments))

\* `'/' in self.formula_template`
HasDivision(formula_template) ==
    \E i \in 1..Len(formula_template) : Contains(formula_template[i], <<"/">>)

\* Metric.sql_formula, as the sequence of the symbols of the expression.
RECURSIVE sql_formula(_, _)
sql_formula_guarding_simple_parents_only(ds, metric) ==
    IF metric.class = "SimpleMetric"
    THEN IF metric.aggregation \in {"distinct-count", "count"}
         THEN << <<"IS NOT NULL :: INTEGER :: SMALLINT", ds.entity, metric.column_name>> >>
         ELSE << <<"COALESCE 0", ds.entity, metric.column_name>> >>
    ELSE LET parent(i) == sql_formula(ds, MetricNamed(ds, metric.parent_metrics[i]))
             simple(i) == MetricNamed(ds, metric.parent_metrics[i]).class = "SimpleMetric"
         IN format(metric.formula_template,
                   [i \in 1..Len(metric.parent_metrics) |->
                       IF HasDivision(metric.formula_template) /\ simple(i)
                       THEN << <<"(NULLIF(">> >> \o parent(i) \o << <<", 0.0))">> >>
                       ELSE << <<"(">> >> \o parent(i) \o << <<")">> >>])

sql_formula(ds, metric) ==
    IF metric.class = "SimpleMetric"
    THEN IF metric.aggregation \in {"distinct-count", "count"}
         THEN << <<"IS NOT NULL :: INTEGER :: SMALLINT", ds.entity, metric.column_name>> >>
         ELSE << <<"COALESCE 0", ds.entity, metric.column_name>> >>
    ELSE LET parent(i) == sql_formula(ds, MetricNamed(ds, metric.parent_metrics[i]))
         IN IF HasDivision(metric.formula_template)
            THEN format(metric.formula_template,
                        [i \in 1..Len(metric.parent_metrics) |->
                            << <<"(NULLIF(">> >> \o parent(i) \o << <<", 0.0))">> >>])
            ELSE format(metric.formula_template,
                        [i \in 1..Len(metric.parent_metrics) |->
                            << <<"(">> >> \o parent(i) \o << <<")">> >>])

\* generate_metrics_query: one column per metric, in the order of the dict.
generate_metrics_query(ds) ==
    [i \in 1..Len(ds.metrics) |->
        [expression |-> sql_formula(ds, ds.metrics[i]), alias |-> ds.metrics[i].name]]

\* generate_table_alias: the prefixes of the links and the name of the entity
\* the path leads to, joined by spaces and normalized.
generate_table_alias(es, path) ==
    normalize_name(join([i \in 1..Len(path) |-> split(LinkOf(es, path[i]).prefix)])
                       \o split(TargetOf(es, Last(path))))

\* A variant of _build_sql_join that joins every table to the table of the data
\* set's entity; the join conditions are checked to tell it from the code.
_build_sql_join_to_root(es, ds) ==
    LET paths_ == paths_to_connected_entities(es, ds)
    IN [from |-> [table |-> <<schema_name(ds.entity), table_name(ds.entity)>>,
                  alias |-> split(ds.entity)],
        joins |-> [i \in 1..Len(paths_) |->
            LET entity_links == paths_[i]
                target_entity == TargetOf(es, Last(entity_links))
            IN [table |-> <<schema_name(target_entity), table_name(target_entity)>>,
                alias |-> generate_table_alias(es, entity_links),
                left_alias |-> split(ds.entity),
                fk_column |-> LinkOf(es, Last(entity_links)).fk_column,
                pk_column |-> pk_column_name(target_entity)]]]

\* _build_sql_join(data_set): the FROM clause and one LEFT JOIN per path;
\* join_entity_only_when_entity_links_exists is False in every call.
_build_sql_join(es, ds) ==
    LET paths_ == paths_to_connected_entities(es, ds)
    IN [from |-> [table |-> <<schema_name(ds.entity), table_name(ds.entity)>>,
                  alias |-> split(ds.entity)],
        joins |-> [i \in 1..Len(paths_) |->
            LET entity_links == paths_[i]
                table_alias_for_right_table == generate_table_alias(es, entity_links)
                table_alias_for_left_table ==
                    IF Len(entity_links) = 1 THEN split(ds.entity)
                    ELSE generate_table_alias(es, Prefix(entity_links, Len(entity_links) - 1))
                target_entity == TargetOf(es, Last(entity_links))
            IN [table |-> <<schema_name(target_entity), table_name(target_entity)>>,
                alias |-> table_alias_for_right_table,
                left_alias |-> table_alias_for_left_table,
                fk_column |-> LinkOf(es, Last(entity_links)).fk_column,
                pk_column |-> pk_column_name(target_entity)]]]

\* Cube.add_measures: one Measure per SimpleMetric.
add_measures(ds) ==
    LET simple == SelectSeq(ds.metrics, LAMBDA metric : metric.class = "SimpleMetric")
    IN [i \in 1..Len(simple) |->
           [name |-> simple[i].name, column_name |-> simple[i].column_name,
            aggregator |-> simple[i].aggregation]]

\* Cube.add_calculated_members: one CalculatedMember per ComposedMetric; in its
\* formula <<"[Measures].[]", name>> is `[Measures].[name]`.
add_calculated_members(ds) ==
    LET composed == SelectSeq(ds.metrics, LAMBDA metric : metric.class = "ComposedMetric")
    IN [i \in 1..Len(composed) |->
           [name |-> composed[i].name,
            formula |-> format(composed[i].formula_template,
                               [j \in 1..Len(composed[i].parent_metrics) |->
                                   << <<"[Measures].[]", composed[i].parent_metrics[j]>> >>])]]

\* ------------------------------------------------- attribute visibility
\* The attributes an entry stands for, at a path that ends in `entity`.
EntryList(es, entity, entry) ==
    IF entry.alias THEN [i \in 1..Len(es[entity].attributes) |-> i] ELSE entry.items

attribute_visible_included_wins(es, ds, path, attribute, include_personal_data) ==
    LET entity == TargetOf(es, Last(path))
        a == es[entity].attributes[attribute]
    IN /\ \/ /\ path \in DOMAIN ds.included_attributes
             /\ Contains(EntryList(es, entity, ds.included_attributes[path]), attribute)
          \/ /\ path \notin DOMAIN ds.included_attributes
             /\ \/ /\ path \in DOMAIN ds.excluded_attributes
                   /\ ~Contains(EntryList(es, entity, ds.excluded_attributes[path]), attribute)
                \/ path \notin DOMAIN ds.excluded_attributes
       /\ a.accessible_via_entity_link
       /\ (include_personal_data \/ ~a.personal_data)

attribute_visible_included_overrides_access(es, ds, path, attribute, include_personal_data) ==
    LET entity == TargetOf(es, Last(path))
        a == es[entity].attributes[attribute]
    IN /\ \/ /\ path \in DOMAIN ds.included_attributes
             /\ Contains(EntryList(es, entity, ds.included_attributes[path]), attribute)
          \/ /\ path \notin DOMAIN ds.included_attributes
             /\ a.accessible_via_entity_link
       /\ \/ /\ path \in DOMAIN ds.excluded_attributes
             /\ ~Contains(EntryList(es, entity, ds.excluded_attributes[path]), attribute)
          \/ path \notin DOMAIN ds.excluded_attributes
       /\ (include_personal_data \/ ~a.personal_data)

attribute_visible_without_inclusion_list(es, ds, path, attribute, include_personal_data) ==
    LET entity == TargetOf(es, Last(path))
        a == es[entity].attributes[attribute]
    IN /\ \/ /\ path \in DOMAIN ds.excluded_attributes
             /\ ~Contains(EntryList(es, entity, ds.excluded_attributes[path]), attribute)
          \/ path \notin DOMAIN ds.excluded_attributes
       /\ a.accessible_via_entity_link
       /\ (include_personal_data \/ ~a.personal_data)

\* The condition under which connected_attributes lists `attribute` at `path`.
attribute_visible(es, ds, path, attribute, include_personal_data) ==
    LET entity == TargetOf(es, Last(path))
        a == es[entity].attributes[attribute]
    IN /\ \/ /\ path \in DOMAIN ds.included_attributes
             /\ Contains(EntryList(es, entity, ds.included_attributes[path]), attribute)
          \/ path \notin DOMAIN ds.included_attributes
       /\ \/ /\ path \in DOMAIN ds.excluded_attributes
             /\ ~Contains(EntryList(es, entity, ds.excluded_attributes[path]), attribute)
          \/ path \notin DOMAIN ds.excluded_attributes
       /\ a.accessible_via_entity_link
       /\ (include_personal_data \/ ~a.personal_data)

\* The list `attributes` connected_attributes builds for `path`.
visible_attributes(es, ds, path, include_personal_data) ==
    SelectSeq([i \in 1..Len(es[TargetOf(es, Last(path))].attributes) |-> i],
              LAMBDA attribute :
                  attribute_visible(es, ds, path, attribute, include_personal_data))

\* The dict connected_attributes returns: the attribute list of the root entity
\* at the empty path, and at every resolved path with a visible attribute the
\* list of its visible attributes.
connected_attributes(es, ds, include_personal_data) ==
    LET resolved == paths_to_connected_entities(es, ds)
        keys == {resolved[i] : i \in 1..Len(resolved)}
        listed == {path \in keys :
                      visible_attributes(es, ds, path, include_personal_data) # <<>>}
    IN [path \in {<<>>} \cup listed |->
           IF path = <<>> THEN [i \in 1..Len(es[ds.entity].attributes) |-> i]
           ELSE visible_attributes(es, ds, path, include_personal_data)]

\* first_lower: the first letter in lower case, unless the first two letters are
\* capitals. Of the words here only "ID" begins with two capitals, and the
\* others have no capital after the first letter.
first_lower(words) ==
    IF Head(words) = "ID" THEN words ELSE <<lower(Head(words))>> \o Tail(words)

\* generate_attribute_name(attribute, path)
generate_attribute_name(es, attribute, path) ==
    IF path # <<>>
    THEN LET prefix == join([i \in 1..Len(path) |->
                              [k \in DOMAIN split(LinkOf(es, path[i]).prefix) |->
                                  lower(split(LinkOf(es, path[i]).prefix)[k])]])
         IN normalize_name(prefix \o first_lower(split(attribute.name)))
    ELSE normalize_name(split(attribute.name))

\* A variant of QueryElementsAttribute that follows the docstring of Type and
\* casts ID attributes as well; the casts are checked to tell it from the code.
QueryElementsAttribute_casting_ids(es, ds, path, attribute) ==
    [table_alias |-> IF path = <<>> THEN split(ds.entity) ELSE generate_table_alias(es, path),
     column_name |-> attribute.column_name,
     attribute_name |-> generate_attribute_name(es, attribute, path),
     type_casting |-> IF attribute.type \in {<<"enum">>, <<"id">>} THEN ":: TEXT" ELSE ""]

\* The QueryElementsAttribute of an attribute listed at `path`.
QueryElementsAttribute(es, ds, path, attribute) ==
    [table_alias |-> IF path = <<>> THEN split(ds.entity) ELSE generate_table_alias(es, path),
     column_name |-> attribute.column_name,
     attribute_name |-> generate_attribute_name(es, attribute, path),
     type_casting |-> IF attribute.type = <<"enum">> THEN ":: TEXT" ELSE ""]

\* The keys of a dict filled in the order of `keys`, a key staying where it
\* was first set.
RECURSIVE dict_keys(_)
dict_keys(keys) ==
    IF keys = <<>> THEN <<>>
    ELSE LET before == dict_keys(Prefix(keys, Len(keys) - 1))
         IN IF Contains(before, Last(keys)) THEN before ELSE Append(before, Last(keys))

\* generate_attribute_query: one column per attribute of
\* data_set.connected_attributes().items(), the empty path first.
generate_attribute_query(es, ds) ==
    LET connected == connected_attributes(es, ds, TRUE)
        items == dict_keys(<< <<>> >> \o
                     SelectSeq(paths_to_connected_entities(es, ds),
                               LAMBDA path : path \in DOMAIN connected))
        entity_of(path) == IF path = <<>> THEN ds.entity ELSE TargetOf(es, Last(path))
        RECURSIVE columns(_)
        columns(k) ==
            IF k > Len(items) THEN <<>>
            ELSE [i \in 1..Len(connected[items[k]]) |->
                     QueryElementsAttribute(es, ds, items[k],
                         es[entity_of(items[k])].attributes[connected[items[k]][i]])]
                 \o columns(k + 1)
    IN columns(1)

PathCallsLeft ==
    Cardinality(data_set.excluded_paths) + Cardinality(data_set.included_paths)
        < MaxOverrides

ExcludePathFrom(path_specs) ==
    /\ phase = "definition"
    /\ PathCallsLeft
    /\ \E path \in path_specs :
           data_set' = exclude_path(entities, data_set, path).data_set
    /\ UNCHANGED <<normalized, entities, phase, paths, attributes, with_personal_data,
                 excluded_entirely, sql, cube, walk, raised>>

IncludePathFrom(path_specs) ==
    /\ phase = "definition"
    /\ PathCallsLeft
    /\ \E path \in path_specs :
           data_set' = include_path(entities, data_set, path).data_set
    /\ UNCHANGED <<normalized, entities, phase, paths, attributes, with_personal_data,
                 excluded_entirely, sql, cube, walk, raised>>

ExcludePath == ExcludePathFrom(PathSpecs)

IncludePath == IncludePathFrom(PathSpecs)

ResolvePaths ==
    /\ phase = "definition"
    /\ phase' = "resolved"
    /\ paths' = paths_to_connected_entities(entities, data_set)
    /\ UNCHANGED <<normalized, entities, data_set, attributes, with_personal_data,
                 excluded_entirely, sql, cube, walk, raised>>

NextPaths ==
    \/ \E e \in Entities, t \in Entities, p \in Prefixes : LinkEntity(e, t, p)
    \/ ExcludePath
    \/ IncludePath
    \/ ResolvePaths

SpecPaths == Init /\ [][NextPaths]_vars

\* ------------------------------------------- attributes and their overrides
Booleans == {TRUE, FALSE}

\* The attribute name lists the calls are made with; None is <<>> as well, as
\* exclude_attributes treats an empty list like no list.
AttributeNameLists ==
    {names \in SeqsUpTo(AttributeNames, Cardinality(AttributeNames)) :
        \A i, j \in 1..Len(names) : i # j => names[i] # names[j]}

\* The links of examples/data_sets.py between Customer and Order.
ExampleLinks ==
    [e \in Entities |->
        IF e = "Customer" THEN <<EntityLink("Order", "First order")>>
        ELSE <<EntityLink("Customer", "")>>]

InitAttributes ==
    /\ entities = [e \in Entities |-> [attributes |-> <<>>, entity_links |-> ExampleLinks[e]]]
    /\ data_set = DataSet(Root, None)
    /\ phase = "definition"
    /\ paths = <<>>
    /\ attributes = <<>>
    /\ with_personal_data = TRUE
    /\ excluded_entirely = <<>>
    /\ sql = <<>>
    /\ cube = <<>>
    /\ walk = [stack |-> <<>>, paths |-> <<>>]
    /\ raised = ""
    /\ normalized = <<>>

AttributeCallsLeft ==
    NumAttributes(entities)
        + Cardinality(DOMAIN data_set.excluded_attributes)
        + Cardinality(DOMAIN data_set.included_attributes) < MaxAttributeCalls

AddAttribute(entity, name, personal_data, accessible_via_entity_link) ==
    /\ phase = "definition"
    /\ AttributeCallsLeft
    /\ entities' = [entities EXCEPT ![entity].attributes =
                        Append(@, Attribute(name, personal_data, accessible_via_entity_link))]
    /\ UNCHANGED <<normalized, data_set, phase, paths, attributes, with_personal_data,
                 excluded_entirely, sql, cube, walk, raised>>


ExcludeAttributesFrom(path_specs) ==
    /\ phase = "definition"
    /\ AttributeCallsLeft
    /\ \E path \in path_specs, attribute_names \in AttributeNameLists :
           LET call == exclude_attributes(entities, data_set, path, attribute_names)
               entity_links == _parse_path(entities, data_set.entity, path).path
           IN /\ data_set' = call.data_set
              /\ excluded_entirely' =
                    IF call.raised # "" THEN excluded_entirely
                    ELSE IF IsFalsy(attribute_names)
                    THEN (entity_links :>
                            Len(entities[TargetOf(entities, Last(entity_links))].attributes))
                         @@ excluded_entirely
                    ELSE [p \in DOMAIN excluded_entirely \ {entity_links} |->
                             excluded_entirely[p]]
    /\ UNCHANGED <<normalized, entities, phase, paths, attributes, with_personal_data,
                 sql, cube, walk, raised>>

IncludeAttributesFrom(path_specs) ==
    /\ phase = "definition"
    /\ AttributeCallsLeft
    /\ \E path \in path_specs, attribute_names \in AttributeNameLists :
           data_set' = include_attributes(entities, data_set, path, attribute_names).data_set
    /\ UNCHANGED <<normalized, entities, phase, paths, attributes, with_personal_data,
                 excluded_entirely, sql, cube, walk, raised>>

ExcludeAttributes == ExcludeAttributesFrom(ExamplePathSpecs)

IncludeAttributes == IncludeAttributesFrom(ExamplePathSpecs)

ConnectedAttributes(flag) ==
    /\ phase = "definition"
    /\ phase' = "resolved"
    /\ with_personal_data' = flag
    /\ paths' = paths_to_connected_entities(entities, data_set)
    /\ attributes' = connected_attributes(entities, data_set, flag)
    /\ UNCHANGED <<normalized, entities, data_set, excluded_entirely, sql, cube, walk, raised>>

NextAttributes ==
    \/ \E e \in Entities, n \in AttributeNames, p \in Booleans, a \in Booleans :
           AddAttribute(e, n, p, a)
    \/ ExcludeAttributes
    \/ IncludeAttributes
    \/ \E flag \in Booleans : ConnectedAttributes(flag)

SpecAttributes == InitAttributes /\ [][NextAttributes]_vars

\* ------------------------------------------- the Order items data set
\* The entities of examples/data_sets.py that a DataSet rooted at Order item
\* reaches over Order: Order item -> Order -> Customer -> Order.
OrderItemEntities == {"Order item", "Order", "Customer"}

OrderItemLinks ==
    [e \in OrderItemEntities |->
        IF e = "Order item" THEN <<EntityLink("Order", "")>> ELSE ExampleLinks[e]]

\* Path specifications of target entity names, up to one segment per entity.
OrderItemPathSpecs ==
    SeqsUpTo({<<"Order">>, <<"Customer">>}, Cardinality(OrderItemEntities))

\* The DataSet is built without a depth limit or, as order_item_data_set, with
\* max_entity_link_depth = 1.
InitOrderItems ==
    /\ entities = [e \in OrderItemEntities |->
                      [attributes |-> <<>>, entity_links |-> OrderItemLinks[e]]]
    /\ \E d \in {None, <<1>>} : data_set = DataSet("Order item", d)
    /\ phase = "definition"
    /\ paths = <<>>
    /\ attributes = <<>>
    /\ with_personal_data = TRUE
    /\ excluded_entirely = <<>>
    /\ sql = <<>>
    /\ cube = <<>>
    /\ walk = [stack |-> <<>>, paths |-> <<>>]
    /\ raised = ""
    /\ normalized = <<>>

NextOrderItems ==
    \/ \E e \in Entities, n \in AttributeNames, p \in Booleans, a \in Booleans :
           AddAttribute(e, n, p, a)
    \/ ExcludeAttributesFrom(OrderItemPathSpecs)
    \/ IncludeAttributesFrom(OrderItemPathSpecs)
    \/ \E flag \in Booleans : ConnectedAttributes(flag)

SpecOrderItems == InitOrderItems /\ [][NextOrderItems]_vars

\* ------------------------------------------- metrics and what is generated
ColumnNames == {"revenue_lifetime"}

Operators == {<<"+">>, <<"/">>}

\* The formulas the calls are made with: bracketed metric names with one
\* operator between two of them, as '[Revenue (lifetime)] / [# Orders]'.
RECURSIVE FormulasOf(_)
FormulasOf(n) ==
    IF n = 1 THEN {<<MetricReference(name)>> : name \in MetricNames}
    ELSE {formula \o <<operator, MetricReference(name)>> :
             formula \in FormulasOf(n - 1), operator \in Operators, name \in MetricNames}

Formulas == UNION {FormulasOf(n) : n \in 1..MaxOperands}

InitMetrics ==
    /\ entities = [e \in Entities |-> [attributes |-> <<>>, entity_links |-> ExampleLinks[e]]]
    /\ data_set = DataSet(Root, None)
    /\ phase = "definition"
    /\ paths = <<>>
    /\ attributes = <<>>
    /\ with_personal_data = TRUE
    /\ excluded_entirely = <<>>
    /\ sql = <<>>
    /\ cube = <<>>
    /\ walk = [stack |-> <<>>, paths |-> <<>>]
    /\ raised = ""
    /\ normalized = <<>>

AddSimpleMetric(name, column_name, aggregation) ==
    /\ phase = "definition"
    /\ data_set' = add_simple_metric(data_set, name, column_name, aggregation).data_set
    /\ UNCHANGED <<normalized, entities, phase, paths, attributes, with_personal_data,
                 excluded_entirely, sql, cube, walk, raised>>

AddComposedMetric(name, formula) ==
    /\ phase = "definition"
    /\ data_set' = add_composed_metric(data_set, name, formula).data_set
    /\ UNCHANGED <<normalized, entities, phase, paths, attributes, with_personal_data,
                 excluded_entirely, sql, cube, walk, raised>>

\* sql_for_flattened_table(data_set)
SqlForFlattenedTable ==
    /\ phase = "definition"
    /\ phase' = "sql generated"
    /\ sql' = [attributes |-> generate_attribute_query(entities, data_set),
               metrics |-> generate_metrics_query(data_set),
               join |-> _build_sql_join(entities, data_set)]
    /\ UNCHANGED <<normalized, entities, data_set, paths, attributes, with_personal_data,
                 excluded_entirely, cube, walk, raised>>

\* The SQL generation for the data sets over any graph of links.
NextJoins ==
    \/ \E e \in Entities, t \in Entities, p \in Prefixes : LinkEntity(e, t, p)
    \/ ExcludePathFrom(ExamplePathSpecs)
    \/ IncludePathFrom(ExamplePathSpecs)
    \/ SqlForFlattenedTable

SpecJoins == Init /\ [][NextJoins]_vars

\* ---------------------------------------------- the flattened table
\* The statement for data sets of the example graph whose entities have any
\* attributes and whose metrics are sums and ratios.
MaxAttributes == 1   \* attributes of an entity

Types == {None, <<"enum">>, <<"id">>}

\* The names of the attributes of examples/data_sets.py that the entities have.
AttributeNamesOf ==
    [e \in Entities |-> IF e = "Customer" THEN {"Age"} ELSE {"Order date", "Status"}]

AttributeListsOf(entity, types) ==
    {list \in SeqsUpTo({AttributeOfType(name, type, FALSE, accessible_via_entity_link) :
                            name \in AttributeNamesOf[entity], type \in types,
                            accessible_via_entity_link \in Booleans},
                       MaxAttributes) :
        \A i, j \in 1..Len(list) : i # j => list[i].name # list[j].name}

AttributeLists(entity) == AttributeListsOf(entity, Types)

\* '[A] / [B]'
RatioFormulas ==
    {<<MetricReference(a), <<"/">>, MetricReference(b)>> : a \in MetricNames, b \in MetricNames}

\* The example graph with attributes of the given types, and a data set for
\* Customer without metrics.
InitWithAttributes(customer_attributes, order_attributes) ==
    /\ \E customer \in customer_attributes, order \in order_attributes :
           entities = [e \in Entities |->
                          [attributes |-> IF e = "Customer" THEN customer ELSE order,
                           entity_links |-> ExampleLinks[e]]]
    /\ data_set = DataSet(Root, None)
    /\ phase = "definition"
    /\ paths = <<>>
    /\ attributes = <<>>
    /\ with_personal_data = TRUE
    /\ excluded_entirely = <<>>
    /\ sql = <<>>
    /\ cube = <<>>
    /\ walk = [stack |-> <<>>, paths |-> <<>>]
    /\ raised = ""
    /\ normalized = <<>>

InitFlattened == InitWithAttributes(AttributeLists("Customer"), AttributeLists("Order"))

NextFlattened ==
    \/ \E name \in MetricNames, column_name \in ColumnNames :
           AddSimpleMetric(name, column_name, "sum")
    \/ \E name \in MetricNames, formula \in RatioFormulas : AddComposedMetric(name, formula)
    \/ SqlForFlattenedTable

SpecFlattened == InitFlattened /\ [][NextFlattened]_vars

\* ------------------------------------------- the Mondrian fact table
\* config.mondrian_dimension_templates(): the types with a dimension template.
mondrian_dimension_templates == {<<"date">>, <<"duration">>}

\* A column name as the parts that its underscores join.
column_parts(column_name) ==
    IF column_name = "revenue_lifetime" THEN <<"revenue", "lifetime">> ELSE <<column_name>>

\* attributes_metrics_sql: the set `result` of the columns of the entity's
\* attributes without a template and of the simple metrics.
attributes_metrics_sql(es, ds) ==
    {[table_alias |-> split(ds.entity), column |-> es[ds.entity].attributes[i].column_name] :
        i \in {i \in 1..Len(es[ds.entity].attributes) :
                  es[ds.entity].attributes[i].type \notin mondrian_dimension_templates}}
    \cup {[table_alias |-> split(ds.entity), column |-> column_parts(ds.metrics[i].column_name)] :
             i \in {i \in 1..Len(ds.metrics) : ds.metrics[i].class = "SimpleMetric"}}

\* list(result) of a set: its elements in the order in which the set iterates,
\* which for a set of strings differs from one interpreter run to the next.
ListsOf(set) ==
    {list \in [1..Cardinality(set) -> set] :
        \A i, j \in 1..Cardinality(set) : i # j => list[i] # list[j]}

\* generate_fk_from_attribute(attribute, path)
generate_fk_from_attribute(es, attribute, path) ==
    generate_attribute_name(es, attribute, path) \o <<"(FK)">>

\* The foreign key expression of an attribute with a template.
TemplateForeignKey(es, table_alias, attribute, path) ==
    [expression |-> IF attribute.type = <<"date">> THEN "TO_CHAR YYYYMMDD :: INTEGER"
                    ELSE "column",
     table_alias |-> table_alias,
     column |-> attribute.column_name,
     alias |-> generate_fk_from_attribute(es, attribute, path)]

\* The join foreign key column of a path; its alias is
\* generate_mondrian_fact_table_fk(data_set, path): the left alias and the
\* foreign key column.
JoinForeignKey(es, ds, path) ==
    LET table_alias == IF Len(path) > 1
                       THEN generate_table_alias(es, Prefix(path, Len(path) - 1))
                       ELSE split(ds.entity)
    IN [expression |-> "join foreign key",
        table_alias |-> table_alias,
        column |-> LinkOf(es, Last(path)).fk_column,
        alias |-> table_alias \o LinkOf(es, Last(path)).fk_column]

\* A variant of foreign_keys_of_path that inlines the attributes without a
\* template; the columns of the paths are checked to tell it from the code.
foreign_keys_of_path_inlining_attributes(es, ds, path, listed) ==
    LET entity == TargetOf(es, Last(path))
    IN <<JoinForeignKey(es, ds, path)>> \o
       [i \in 1..Len(listed) |->
           IF es[entity].attributes[listed[i]].type \in mondrian_dimension_templates
           THEN TemplateForeignKey(es, generate_table_alias(es, path),
                                   es[entity].attributes[listed[i]], path)
           ELSE [expression |-> "column",
                 table_alias |-> generate_table_alias(es, path),
                 column |-> es[entity].attributes[listed[i]].column_name,
                 alias |-> generate_attribute_name(es, es[entity].attributes[listed[i]], path)]]

\* foreign_keys_sql, the part for one non-empty key of connected_attributes:
\* the join foreign key, then the attributes with a template.
foreign_keys_of_path(es, ds, path, listed) ==
    LET entity == TargetOf(es, Last(path))
        templated == SelectSeq(listed, LAMBDA i :
                         es[entity].attributes[i].type \in mondrian_dimension_templates)
    IN <<JoinForeignKey(es, ds, path)>> \o
       [i \in 1..Len(templated) |->
           TemplateForeignKey(es, generate_table_alias(es, path),
                              es[entity].attributes[templated[i]], path)]

\* foreign_keys_sql(data_set)
foreign_keys_sql(es, ds) ==
    LET connected == connected_attributes(es, ds, TRUE)
        items == dict_keys(<< <<>> >> \o
                     SelectSeq(paths_to_connected_entities(es, ds),
                               LAMBDA path : path \in DOMAIN connected))
        own == SelectSeq(es[ds.entity].attributes,
                         LAMBDA attribute : attribute.type \in mondrian_dimension_templates)
        RECURSIVE columns(_)
        columns(k) ==
            IF k > Len(items) THEN <<>>
            ELSE (IF items[k] = <<>> THEN <<>>
                  ELSE foreign_keys_of_path(es, ds, items[k], connected[items[k]]))
                 \o columns(k + 1)
    IN [i \in 1..Len(own) |-> TemplateForeignKey(es, split(ds.entity), own[i], <<>>)]
       \o columns(1)

\* sql_for_mondrian_fact_table(data_set); it can be called again for the same
\* model.
SqlForMondrianFactTable ==
    /\ phase \in {"definition", "fact table generated"}
    /\ phase' = "fact table generated"
    /\ \E attributes_and_metrics \in ListsOf(attributes_metrics_sql(entities, data_set)) :
           sql' = [attributes_and_metrics |-> attributes_and_metrics,
                   foreign_keys |-> foreign_keys_sql(entities, data_set),
                   join |-> _build_sql_join(entities, data_set)]
    /\ UNCHANGED <<normalized, entities, data_set, paths, attributes, with_personal_data,
                 excluded_entirely, cube, walk, raised>>

FactTableTypes == {None} \cup mondrian_dimension_templates

NextFactTable ==
    \/ \E name \in MetricNames, column_name \in ColumnNames :
           AddSimpleMetric(name, column_name, "sum")
    \/ \E name \in MetricNames, formula \in RatioFormulas : AddComposedMetric(name, formula)
    \/ SqlForMondrianFactTable

SpecFactTable ==
    InitWithAttributes(AttributeListsOf("Customer", FactTableTypes),
                       AttributeListsOf("Order", FactTableTypes))
        /\ [][NextFactTable]_vars

\* ------------------------------------------------------- the cube
\* config.exclude_high_cardinality_dimension_from_mondrian_schema()
exclude_high_cardinality_dimension_from_mondrian_schema == TRUE

\* config.include_personal_data_in_mondrian_schema()
include_personal_data_in_mondrian_schema == FALSE

\* The dimension add_dimensions builds for an attribute listed at `path`.
DimensionOf(es, ds, path, attribute) ==
    LET name == generate_attribute_name(es, attribute, path)
    IN IF attribute.type \in mondrian_dimension_templates
       THEN [class |-> "TemplatedDimension", name |-> name, column_name |-> None,
             foreign_key |-> generate_fk_from_attribute(es, attribute, path),
             primary_key |-> None, table_name |-> None, schema_name |-> ""]
       ELSE IF path = <<>>
       THEN [class |-> "PrivateDimension", name |-> name,
             column_name |-> attribute.column_name,
             foreign_key |-> None, primary_key |-> None, table_name |-> None,
             schema_name |-> ""]
       ELSE LET entity == TargetOf(es, Last(path))
            IN [class |-> "LinkedDimension", name |-> name,
                column_name |-> attribute.column_name,
                foreign_key |-> JoinForeignKey(es, ds, path).alias,
                primary_key |-> pk_column_name(entity),
                table_name |-> table_name(entity),
                schema_name |-> schema_name(entity)]

\* Cube.add_dimensions
add_dimensions(es, ds) ==
    LET connected == connected_attributes(es, ds, include_personal_data_in_mondrian_schema)
        items == dict_keys(<< <<>> >> \o
                     SelectSeq(paths_to_connected_entities(es, ds),
                               LAMBDA path : path \in DOMAIN connected))
        entity_of(path) == IF path = <<>> THEN ds.entity ELSE TargetOf(es, Last(path))
        gets_dimension(attribute) ==
            /\ attribute.type # <<"array">>
            /\ \/ ~exclude_high_cardinality_dimension_from_mondrian_schema
               \/ /\ exclude_high_cardinality_dimension_from_mondrian_schema
                  /\ ~attribute.high_cardinality
        RECURSIVE dimensions(_)
        dimensions(k) ==
            IF k > Len(items) THEN <<>>
            ELSE LET listed == [i \in 1..Len(connected[items[k]]) |->
                                   es[entity_of(items[k])].attributes[connected[items[k]][i]]]
                     kept == SelectSeq(listed, gets_dimension)
                 IN [i \in 1..Len(kept) |-> DimensionOf(es, ds, items[k], kept[i])]
                    \o dimensions(k + 1)
    IN dimensions(1)

\* Cube(data_set)
NewCube ==
    /\ phase = "definition"
    /\ phase' = "cube built"
    /\ cube' = [cube_dimensions |-> add_dimensions(entities, data_set),
                measures |-> add_measures(data_set),
                calculated_members |-> add_calculated_members(data_set),
                xml_element |-> None]
    /\ UNCHANGED <<normalized, entities, data_set, paths, attributes, with_personal_data,
                 excluded_entirely, sql, walk, raised>>

\* cube.get_xml_element(), as create_schema calls it for the cube it built:
\* list(self.data_set.metrics.keys())[0] raises IndexError for an empty dict.
GetXmlElement ==
    /\ phase = "cube built"
    /\ phase' = "cube document"
    /\ IF data_set.metrics = <<>>
       THEN /\ raised' = "IndexError"
            /\ cube' = cube
       ELSE /\ raised' = ""
            /\ cube' = [cube EXCEPT !.xml_element =
                           [defaultMeasure |-> data_set.metrics[1].name,
                            Dimension |-> cube.cube_dimensions,
                            Measure |-> cube.measures,
                            CalculatedMember |-> cube.calculated_members]]
    /\ UNCHANGED <<normalized, entities, data_set, paths, attributes, with_personal_data,
                 excluded_entirely, sql, walk>>

\* The cubes of the data sets of the example graph whose attributes have any
\* type and flags.
CubeTypes == {None, <<"array">>, <<"date">>}

CubeAttributeLists(entity) ==
    {list \in SeqsUpTo({AddedAttribute(name, type, high_cardinality, personal_data, TRUE) :
                            name \in AttributeNamesOf[entity], type \in CubeTypes,
                            high_cardinality \in Booleans, personal_data \in Booleans},
                       MaxAttributes) :
        \A i, j \in 1..Len(list) : i # j => list[i].name # list[j].name}

\* A formula without a bracketed name, as '1': a metric with no parent.
ConstantFormula == << <<"1">> >>

NextCube ==
    \/ \E name \in MetricNames, column_name \in ColumnNames :
           AddSimpleMetric(name, column_name, "sum")
    \/ \E name \in MetricNames : AddComposedMetric(name, ConstantFormula)
    \/ NewCube
    \/ GetXmlElement

SpecCube ==
    InitWithAttributes(CubeAttributeLists("Customer"), CubeAttributeLists("Order"))
        /\ [][NextCube]_vars

NextMetrics ==
    \/ \E name \in MetricNames, column_name \in ColumnNames, aggregation \in Aggregations :
           AddSimpleMetric(name, column_name, aggregation)
    \/ \E name \in MetricNames, formula \in Formulas : AddComposedMetric(name, formula)
    \/ SqlForFlattenedTable
    \/ NewCube
    \/ GetXmlElement

SpecMetrics == InitMetrics /\ [][NextMetrics]_vars

\* ------------------------------------------- names, normalized
InitNormalize ==
    /\ entities = [e \in Entities |-> [attributes |-> <<>>, entity_links |-> <<>>]]
    /\ data_set = DataSet(Root, None)
    /\ phase = "definition"
    /\ paths = <<>>
    /\ attributes = <<>>
    /\ with_personal_data = TRUE
    /\ excluded_entirely = <<>>
    /\ sql = <<>>
    /\ cube = <<>>
    /\ walk = [stack |-> <<>>, paths |-> <<>>]
    /\ raised = ""
    /\ \E name \in Names, max_length \in MaxLengths :
           normalized = [name |-> name, max_length |-> max_length,
                         attribute_names |-> <<>>, schema_names |-> <<>>]

\* attribute.normalize_name of the name, then of what it returned.
AttributeNormalizeName ==
    /\ Len(normalized.attribute_names) < MaxNormalizeCalls
    /\ normalized' =
           [normalized EXCEPT !.attribute_names =
               Append(@, attribute_normalize_name(
                             IF @ = <<>> THEN normalized.name ELSE Last(@),
                             normalized.max_length))]
    /\ UNCHANGED <<entities, data_set, phase, paths, attributes, with_personal_data,
                 excluded_entirely, sql, cube, walk, raised>>

\* schema.normalize_name of the name, then of what it returned.
SchemaNormalizeName ==
    /\ Len(normalized.schema_names) < MaxNormalizeCalls
    /\ normalized' =
           [normalized EXCEPT !.schema_names =
               Append(@, schema_normalize_name(
                             IF @ = <<>> THEN normalized.name ELSE Last(@)))]
    /\ UNCHANGED <<entities, data_set, phase, paths, attributes, with_personal_data,
                 excluded_entirely, sql, cube, walk, raised>>

NextNormalize ==
    \/ AttributeNormalizeName
    \/ SchemaNormalizeName

SpecNormalize == InitNormalize /\ [][NextNormalize]_vars

\* ------------------------------------------- definition calls, observed
\* The definition calls of a DataSet as made by code that catches what they
\* raise. Customer has a second link to Order here, so that the plain segment
\* 'Order' is ambiguous; Customer has the attribute Age and Order has Order date,
\* so that each name is unknown at one of the entities.
MaxCalls == 3   \* metrics and override entries of the data set

CallLinks ==
    [e \in Entities |->
        IF e = "Customer" THEN <<EntityLink("Order", "First order"), EntityLink("Order", "")>>
        ELSE <<EntityLink("Customer", "")>>]

CallAttributes ==
    [e \in Entities |->
        IF e = "Customer" THEN <<Attribute("Age", TRUE, TRUE)>>
        ELSE <<Attribute("Order date", FALSE, TRUE)>>]

\* A tuple of three strings is neither a name nor a (name, prefix) pair.
MalformedSegment == <<"Order", "First order", "Customer">>

CallSegments == {<<"Order">>, <<"Order", "First order">>, <<"Customer">>, MalformedSegment}

CallPathSpecs == SeqsUpTo(CallSegments, Cardinality(Entities))

\* Formulas of one or two metric names: of two parents, each may be the one
\* that is not in the data set.
CallFormulas == FormulasOf(1) \cup FormulasOf(2)

InitCalls ==
    /\ entities = [e \in Entities |->
                      [attributes |-> CallAttributes[e], entity_links |-> CallLinks[e]]]
    /\ data_set = DataSet(Root, None)
    /\ phase = "definition"
    /\ paths = <<>>
    /\ attributes = <<>>
    /\ with_personal_data = TRUE
    /\ excluded_entirely = <<>>
    /\ sql = <<>>
    /\ cube = <<>>
    /\ walk = [stack |-> <<>>, paths |-> <<>>]
    /\ raised = ""
    /\ normalized = <<>>

CallsLeft ==
    Len(data_set.metrics)
        + Cardinality(data_set.excluded_paths) + Cardinality(data_set.included_paths)
        + Cardinality(DOMAIN data_set.excluded_attributes)
        + Cardinality(DOMAIN data_set.included_attributes) < MaxCalls

\* try: <call> except Exception as e: raised = e
Try(call) ==
    /\ data_set' = call.data_set
    /\ raised' = call.raised
    /\ UNCHANGED <<normalized, entities, phase, paths, attributes, with_personal_data,
                 excluded_entirely, sql, cube, walk>>

TryAddSimpleMetric ==
    /\ phase = "definition"
    /\ CallsLeft
    /\ \E name \in MetricNames, column_name \in ColumnNames, aggregation \in Aggregations :
           Try(add_simple_metric(data_set, name, column_name, aggregation))

TryAddComposedMetric ==
    /\ phase = "definition"
    /\ CallsLeft
    /\ \E name \in MetricNames, formula \in CallFormulas :
           Try(add_composed_metric(data_set, name, formula))

TryExcludePath ==
    /\ phase = "definition"
    /\ CallsLeft
    /\ \E path \in CallPathSpecs : Try(exclude_path(entities, data_set, path))

TryIncludePath ==
    /\ phase = "definition"
    /\ CallsLeft
    /\ \E path \in CallPathSpecs : Try(include_path(entities, data_set, path))

TryExcludeAttributes ==
    /\ phase = "definition"
    /\ CallsLeft
    /\ \E path \in CallPathSpecs, attribute_names \in AttributeNameLists :
           Try(exclude_attributes(entities, data_set, path, attribute_names))

TryIncludeAttributes ==
    /\ phase = "definition"
    /\ CallsLeft
    /\ \E path \in CallPathSpecs, attribute_names \in AttributeNameLists :
           Try(include_attributes(entities, data_set, path, attribute_names))

NextCalls ==
    \/ TryAddSimpleMetric
    \/ TryAddComposedMetric
    \/ TryExcludePath
    \/ TryIncludePath
    \/ TryExcludeAttributes
    \/ TryIncludeAttributes

SpecCalls == InitCalls /\ [][NextCalls]_vars

\* ------------------------------------------- the traversal, step by step
\* paths_to_connected_entities as it runs: `walk.stack` holds one frame per
\* active call of traverse_graph (the entity, current_path and the position of
\* the for loop), `walk.paths` is the list `paths` being filled.
Frame(entity, current_path) == [entity |-> entity, current_path |-> current_path, i |-> 1]

StartWalk ==
    /\ phase = "definition"
    /\ phase' = "walking"
    /\ walk' = [stack |-> <<Frame(data_set.entity, <<>>)>>, paths |-> <<>>]
    /\ UNCHANGED <<normalized, entities, data_set, paths, attributes, with_personal_data,
                 excluded_entirely, sql, cube, raised>>

WalkStep ==
    /\ phase = "walking"
    /\ walk.stack # <<>>
    /\ LET n == Len(walk.stack)
           top == walk.stack[n]
           entity_link == <<top.entity, top.i>>
           path == Append(top.current_path, entity_link)
           advanced == [walk.stack EXCEPT ![n].i = @ + 1]
       IN \/ /\ top.i > Len(entities[top.entity].entity_links)
             /\ walk' = [walk EXCEPT !.stack = Prefix(walk.stack, n - 1)]
          \/ /\ top.i <= Len(entities[top.entity].entity_links)
             /\ path_survives(data_set, top.current_path, entity_link)
             /\ walk' = [stack |-> Append(advanced,
                                          Frame(TargetOf(entities, entity_link), path)),
                         paths |-> _append_path_including_subpaths(walk.paths, path)]
          \/ /\ top.i <= Len(entities[top.entity].entity_links)
             /\ ~path_survives(data_set, top.current_path, entity_link)
             /\ walk' = [walk EXCEPT !.stack = advanced]
    /\ UNCHANGED <<normalized, entities, data_set, phase, paths, attributes, with_personal_data,
                 excluded_entirely, sql, cube, raised>>

WalkReturn ==
    /\ phase = "walking"
    /\ walk.stack = <<>>
    /\ phase' = "resolved"
    /\ paths' = walk.paths
    /\ UNCHANGED <<normalized, entities, data_set, attributes, with_personal_data,
                 excluded_entirely, sql, cube, walk, raised>>

NextWalk ==
    \/ \E e \in Entities, t \in Entities, p \in Prefixes : LinkEntity(e, t, p)
    \/ StartWalk
    \/ WalkStep
    \/ WalkReturn

\* A call runs to its end: the traversal is synchronous and single-threaded.
SpecWalk == Init /\ [][NextWalk]_vars /\ WF_vars(WalkStep \/ WalkReturn)

\* ------------------------------------------------------------ properties
Resolved == phase = "resolved"

InPaths(path) == Contains(paths, path)

NoRepeatedLink(path) ==
    \A j, k \in 1..Len(path) : j # k => path[j] # path[k]

Depth == data_set.max_entity_link_depth

\* C1: no path returned by paths_to_connected_entities contains the same
\* EntityLink instance at two positions, whatever the graph (cycles and
\* self-links included) and whatever excluded_paths, included_paths and
\* max_entity_link_depth are.
C1_NoLinkTwice ==
    Resolved =>
        LET other == DataSet_paths_to_connected_entities(entities, data_set)
        IN /\ \A i \in 1..Len(paths) : NoRepeatedLink(paths[i])
           /\ \A i \in 1..Len(other) : NoRepeatedLink(other[i])

\* A cycle is walked once around: the link that closes it is in a path, and the
\* path that would take its first link again is not.
C1_Witness ==
    /\ Resolved
    /\ \E i \in 1..Len(paths) :
           /\ Len(paths[i]) = 2
           /\ TargetOf(entities, paths[i][2]) = data_set.entity
           /\ Len(entities[data_set.entity].entity_links) = 1
           /\ Depth = None

\* C2: the result is prefix-closed: with a path of n >= 2 links, the path of
\* its first k links is in the result too, for every 1 <= k < n.
C2_PrefixClosed ==
    Resolved =>
        \A i \in 1..Len(paths) :
            \A k \in 1..(Len(paths[i]) - 1) : InPaths(Prefix(paths[i], k))

C2_Witness ==
    /\ Resolved
    /\ \E i \in 1..Len(paths) : Len(paths[i]) >= 2 /\ InPaths(Prefix(paths[i], 1))

\* The result of the resolution had `path` not been excluded.
PathsWithout(path) ==
    paths_to_connected_entities(
        entities, [data_set EXCEPT !.excluded_paths = @ \ {path}])

C4_BeyondDepthOnlyIncluded ==
    (Resolved /\ Depth # None) =>
        \A i \in 1..Len(paths) :
            Len(paths[i]) > Depth[1] => paths[i] \in data_set.included_paths

C4_Witness ==
    /\ Resolved
    /\ Depth # None
    /\ \E i \in 1..Len(paths) : Len(paths[i]) > Depth[1]

\* C5: an included path P that repeats no link and has neither itself nor a
\* prefix in excluded_paths is in the result although it has more links than
\* max_entity_link_depth, however many more.
C5_IncludedPathIsResolved ==
    (Resolved /\ Depth # None) =>
        \A P \in data_set.included_paths :
            (/\ Len(P) > Depth[1]
             /\ NoRepeatedLink(P)
             /\ \A k \in 1..Len(P) : Prefix(P, k) \notin data_set.excluded_paths)
            => InPaths(P)

\* C6: path resolution terminates on every graph, cyclic ones and self-links
\* included, with and without a depth limit: a traversal that has started
\* returns, and no path of the list it returns has more links than the graph
\* has EntityLink instances.
C6_WalkTerminates ==
    (phase = "walking") ~>
        (/\ Resolved
         /\ \A i \in 1..Len(paths) : Len(paths[i]) <= NumLinks(entities))

\* A traversal over a cycle with no depth limit that has returned.
C6_Witness ==
    /\ Resolved
    /\ Depth = None
    /\ \E i \in 1..Len(paths) :
           Len(paths[i]) = 2 /\ TargetOf(entities, paths[i][2]) = data_set.entity

\* The traversal step by step returns what the recursive definition returns.
WalkReturnsPaths ==
    Resolved => paths = paths_to_connected_entities(entities, data_set)

\* C7: the returned list holds each path at most once.
C7_NoDuplicatePath ==
    Resolved => \A i, j \in 1..Len(paths) : i # j => paths[i] # paths[j]

\* A path that is registered on its own and again as the prefix of a longer one.
C7_Witness ==
    /\ Resolved
    /\ \E i, j \in 1..Len(paths) : i # j /\ IsPrefixOf(paths[i], paths[j])

\* ------------------------------------------------ attributes at the paths
\* attribute `a` of the path's last entity is in the dict that
\* connected_attributes returned, under `path`.
Listed(path, a) == path \in DOMAIN attributes /\ Contains(attributes[path], a)

AttributesAt(path) ==
    IF path = <<>> THEN entities[data_set.entity].attributes
    ELSE entities[TargetOf(entities, Last(path))].attributes

InEntry(entries, path, a) ==
    /\ path \in DOMAIN entries
    /\ Contains(EntryList(entities, TargetOf(entities, Last(path)), entries[path]), a)

C9_RootHidesPersonalData ==
    Resolved =>
        \A a \in 1..Len(AttributesAt(<<>>)) :
            Listed(<<>>, a) <=> (with_personal_data \/ ~AttributesAt(<<>>)[a].personal_data)

\* C10: no attribute listed at a non-empty path has
\* accessible_via_entity_link = False.
C10_InaccessibleOnlyAtRoot ==
    Resolved =>
        \A path \in DOMAIN attributes :
            path # <<>> =>
                \A i \in 1..Len(attributes[path]) :
                    AttributesAt(path)[attributes[path][i]].accessible_via_entity_link

\* An attribute of the root entity that is not accessible via entity link is in
\* the inclusion entry of a resolved path back to the root entity: it is hidden
\* at that path and listed at the empty path.
C10_Witness ==
    /\ Resolved
    /\ \E path \in {paths[i] : i \in 1..Len(paths)} :
           /\ TargetOf(entities, Last(path)) = data_set.entity
           /\ \E a \in 1..Len(AttributesAt(path)) :
                  /\ ~AttributesAt(path)[a].accessible_via_entity_link
                  /\ InEntry(data_set.included_attributes, path, a)
                  /\ ~Listed(path, a)
                  /\ Listed(<<>>, a)

\* C11: once exclude_attributes was called for a path without an attribute
\* list, and not since with one, connected_attributes lists no attribute at
\* that path, whatever was added to the path's last entity afterwards.
C11_ExcludedEntirelyListsNothing ==
    Resolved => \A path \in DOMAIN excluded_entirely : path \notin DOMAIN attributes

\* An attribute added to the last entity of a resolved path after the call, which
\* passes every other test, is not listed at the path.
C11_Witness ==
    /\ Resolved
    /\ with_personal_data
    /\ \E path \in DOMAIN excluded_entirely :
           /\ InPaths(path)
           /\ path \notin DOMAIN data_set.included_attributes
           /\ \E a \in 1..Len(AttributesAt(path)) :
                  /\ a > excluded_entirely[path]
                  /\ AttributesAt(path)[a].accessible_via_entity_link
                  /\ ~Listed(path, a)

\* The DataSet of examples/data_sets.py rooted at Customer: Customer linked to
\* Order with prefix 'First order', Order linked back to Customer,
\* max_entity_link_depth = 2, the path over both links excluded.
FirstOrderLink == <<"Customer", 1>>

CustomerOfOrderLink == <<"Order", 1>>

CustomersDataSet ==
    /\ \A e \in Entities : entities[e].entity_links = ExampleLinks[e]
    /\ data_set.entity = "Customer"
    /\ data_set.max_entity_link_depth = <<2>>
    /\ data_set.excluded_paths = {<<FirstOrderLink, CustomerOfOrderLink>>}
    /\ data_set.included_paths = {}

\* C12: that DataSet resolves to exactly one path, the one over the
\* 'First order' link alone.
C12_CustomersResolveToFirstOrder ==
    (Resolved /\ CustomersDataSet) => paths = << <<FirstOrderLink>> >>

C12_Witness ==
    /\ Resolved
    /\ CustomersDataSet
    /\ paths = << <<FirstOrderLink>> >>
    /\ ~InPaths(<<FirstOrderLink, CustomerOfOrderLink>>)

\* The path Order item -> Order -> Customer -> Order.
OrderOfCustomerOfOrder == << <<"Order item", 1>>, <<"Order", 1>>, <<"Customer", 1>> >>

\* The Order items data set after
\* include_attributes(['Order', 'Customer', 'Order'], ['Order date']): Order has
\* an attribute 'Order date' with the default flags, the path has the inclusion
\* entry of that call and no exclusion entry, and no path is included.
OrderItemsDataSet(depth) ==
    /\ DOMAIN entities = OrderItemEntities
    /\ data_set.entity = "Order item"
    /\ data_set.max_entity_link_depth = depth
    /\ data_set.included_paths = {}
    /\ find_attribute(entities, "Order", "Order date").ok
    /\ LET order_date == find_attribute(entities, "Order", "Order date").attribute
       IN /\ entities["Order"].attributes[order_date].accessible_via_entity_link
          /\ ~entities["Order"].attributes[order_date].personal_data
          /\ OrderOfCustomerOfOrder \in DOMAIN data_set.included_attributes
          /\ data_set.included_attributes[OrderOfCustomerOfOrder] = OwnList(<<order_date>>)
    /\ OrderOfCustomerOfOrder \notin DOMAIN data_set.excluded_attributes

OnlyOrderDateListed ==
    /\ OrderOfCustomerOfOrder \in DOMAIN attributes
    /\ attributes[OrderOfCustomerOfOrder] =
           <<find_attribute(entities, "Order", "Order date").attribute>>

\* C13 as stated: with max_entity_link_depth = 1 and no include_path call,
\* connected_attributes has an entry for the three-link path, with exactly the
\* attribute 'Order date'.
C13_OrderDateAtThreeLinkPath ==
    (Resolved /\ OrderItemsDataSet(<<1>>)) => OnlyOrderDateListed

\* C13 amended: the entry with exactly 'Order date' is there when the DataSet
\* has no depth limit; with max_entity_link_depth = 1 the three-link path is not
\* resolved and has no entry.
C13_OrderDateWithoutDepthLimit ==
    /\ (Resolved /\ OrderItemsDataSet(None)) => OnlyOrderDateListed
    /\ (Resolved /\ OrderItemsDataSet(<<1>>)) =>
           /\ ~InPaths(OrderOfCustomerOfOrder)
           /\ OrderOfCustomerOfOrder \notin DOMAIN attributes

\* Without a depth limit, Order has a second attribute that passes every other
\* test and only 'Order date' is listed at the three-link path.
C13_Witness ==
    /\ Resolved
    /\ OrderItemsDataSet(None)
    /\ OnlyOrderDateListed
    /\ \E a \in 1..Len(entities["Order"].attributes) :
           /\ entities["Order"].attributes[a].name # "Order date"
           /\ entities["Order"].attributes[a].accessible_via_entity_link
           /\ ~entities["Order"].attributes[a].personal_data

\* ------------------------------------------------ metrics in what is generated
SqlGenerated == phase = "sql generated"

CubeBuilt == phase = "cube built"

MetricIndex(name) ==
    CHOOSE i \in 1..Len(data_set.metrics) : data_set.metrics[i].name = name

\* The expression generated for the j-th parent of the metric at `k`.
ParentExpression(k, j) ==
    sql.metrics[MetricIndex(data_set.metrics[k].parent_metrics[j])].expression

\* How many symbols of the expression of the composed metric at `k` precede the
\* place of its j-th parent: the texts and wrapped parents before it.
RECURSIVE ParentOffset(_, _)
ParentOffset(k, j) ==
    IF j = 1 THEN Len(data_set.metrics[k].formula_template[1])
    ELSE ParentOffset(k, j - 1) + Len(ParentExpression(k, j - 1)) + 2
             + Len(data_set.metrics[k].formula_template[j])

\* At the place of the j-th parent stands that parent's expression between
\* `open` and `close`.
ParentWrappedIn(k, j, open, close) ==
    LET expression == sql.metrics[k].expression
        from == ParentOffset(k, j)
        parent == ParentExpression(k, j)
    IN /\ Len(expression) >= from + Len(parent) + 2
       /\ expression[from + 1] = open
       /\ SubSeq(expression, from + 2, from + 1 + Len(parent)) = parent
       /\ expression[from + Len(parent) + 2] = close

\* The j-th parent comes after a division operator of the template.
AfterDivision(metric, j) ==
    \E i \in 1..j : Contains(metric.formula_template[i], <<"/">>)

ComposedMetrics ==
    {k \in 1..Len(data_set.metrics) : data_set.metrics[k].class = "ComposedMetric"}

\* C14: in the SQL expression of a composed metric every parent after a division
\* operator of the template stands inside NULLIF(.., 0.0), whole, be it simple or
\* composed, and the parents of a template without division stand inside plain
\* parentheses.
C14_ParentAfterDivisionIsGuarded ==
    SqlGenerated =>
        \A k \in ComposedMetrics :
            \A j \in 1..Len(data_set.metrics[k].parent_metrics) :
                /\ AfterDivision(data_set.metrics[k], j) =>
                       ParentWrappedIn(k, j, <<"(NULLIF(">>, <<", 0.0))">>)
                /\ ~HasDivision(data_set.metrics[k].formula_template) =>
                       ParentWrappedIn(k, j, <<"(">>, <<")">>)

\* A composed metric divides by a composed metric, whose whole expression
\* stands inside the guard.
C14_Witness ==
    /\ SqlGenerated
    /\ \E k \in ComposedMetrics :
           \E j \in 1..Len(data_set.metrics[k].parent_metrics) :
               /\ AfterDivision(data_set.metrics[k], j)
               /\ MetricIndex(data_set.metrics[k].parent_metrics[j]) \in ComposedMetrics
               /\ ParentWrappedIn(k, j, <<"(NULLIF(">>, <<", 0.0))">>)

\* A symbol of a calculated member's formula that is neither an operator of the
\* template nor a measure: something put around a measure.
IsWrapper(token) == token \notin Operators /\ ~IsMetricReference(token)

\* C15: in the formula of the calculated member of a composed metric, a parent
\* after a division operator of the template is preceded by the opening of a
\* zero guard, and the formula of a template without division has no guard.
C15_CubeDenominatorIsGuarded ==
    CubeBuilt =>
        \A i \in 1..Len(cube.calculated_members) :
            LET member == cube.calculated_members[i]
                metric == data_set.metrics[MetricIndex(member.name)]
            IN /\ \A j \in 1..Len(metric.parent_metrics) :
                      AfterDivision(metric, j) =>
                          \E p \in 2..Len(member.formula) :
                              /\ member.formula[p] = <<"[Measures].[]", metric.parent_metrics[j]>>
                              /\ IsWrapper(member.formula[p - 1])
               /\ ~HasDivision(metric.formula_template) =>
                      \A p \in 1..Len(member.formula) : ~IsWrapper(member.formula[p])

\* ------------------------------------------------------ looking up a link
\* The links of `entity` with that target entity name and, when a prefix is
\* given, that prefix.
LinksTo(entity, target_entity_name, prefix) ==
    {<<entity, i>> : i \in
        {i \in 1..Len(entities[entity].entity_links) :
            /\ entities[entity].entity_links[i].target_entity = target_entity_name
            /\ (prefix # None => entities[entity].entity_links[i].prefix = prefix[1])}}

PrefixArguments == {None} \cup {<<p>> : p \in Prefixes}

\* C16: find_entity_link returns the matching link exactly when one link of the
\* entity matches, and raises LookupError when none or several match.
C16_FindsTheUniqueLinkOrRaises ==
    \A entity \in Entities, target_entity_name \in Entities, prefix \in PrefixArguments :
        LET found == find_entity_link(entities, entity, target_entity_name, prefix)
            matching == LinksTo(entity, target_entity_name, prefix)
        IN IF Cardinality(matching) = 1
           THEN found.ok /\ found.link \in matching
           ELSE ~found.ok /\ found.raised = "LookupError"

\* An entity has two links to the same target entity with different prefixes:
\* the lookup by name alone raises, and exclude_path with the prefix of the
\* second link has stored the path over that link.
C16_Witness ==
    \E entity \in Entities, target_entity_name \in Entities :
        /\ Cardinality(LinksTo(entity, target_entity_name, None)) = 2
        /\ ~find_entity_link(entities, entity, target_entity_name, None).ok
        /\ entity = data_set.entity
        /\ \E prefix \in Prefixes :
               /\ LinksTo(entity, target_entity_name, <<prefix>>) = {<<entity, 2>>}
               /\ data_set.excluded_paths = {<< <<entity, 2>> >>}


\* C17: a definition call that raises leaves the data set as it was before the
\* call: its metrics, excluded_paths, included_paths, excluded_attributes and
\* included_attributes are the same after the call as before it.
C17_FailingCallLeavesDataSetUnchanged ==
    [][raised' # "" => data_set' = data_set]_vars

\* A metric, then a path override, then a call with a malformed segment.
C17_Witness ==
    /\ raised = "TypeError"
    /\ data_set.metrics # <<>>
    /\ data_set.excluded_paths # {}

\* The formulas that name the metric `name`.
Referencing(name) ==
    {formula \in Formulas :
        \E i \in 1..Len(formula_names(formula)) : formula_names(formula)[i] = name}

\* C18: the metrics of a data set have different names, every parent of a
\* composed metric is a metric defined before it, and add_composed_metric raises
\* for a formula that names the metric being defined.
C18_MetricsAreUniqueAndParentsComeFirst ==
    /\ \A i, j \in 1..Len(data_set.metrics) :
           i # j => data_set.metrics[i].name # data_set.metrics[j].name
    /\ \A k \in ComposedMetrics :
           \A p \in 1..Len(data_set.metrics[k].parent_metrics) :
               \E i \in 1..(k - 1) :
                   data_set.metrics[i].name = data_set.metrics[k].parent_metrics[p]
    /\ \A name \in MetricNames :
           \A formula \in Referencing(name) :
               add_composed_metric(data_set, name, formula).raised = "ValueError"

\* A composed metric of a composed metric, and nothing left to define.
C18_Witness ==
    /\ Len(data_set.metrics) = Cardinality(MetricNames)
    /\ \E k \in ComposedMetrics :
           \E p \in 1..Len(data_set.metrics[k].parent_metrics) :
               MetricIndex(data_set.metrics[k].parent_metrics[p]) \in ComposedMetrics

\* The join generated for the i-th resolved path.
JoinOf(i) == sql.join.joins[i]

ResolvedPaths == paths_to_connected_entities(entities, data_set)

\* C19: the statement has one LEFT JOIN per resolved path, in the order of the
\* paths; the join of a path joins the table of the entity the path leads to,
\* under the alias of the path, on the foreign key column of the last link in
\* the left table and the primary key column of the joined table. The left
\* table is the data set's entity for a path of one link and else the table
\* joined under the alias of the path without its last link.
C19_OneLeftJoinPerPath ==
    SqlGenerated =>
        LET resolved == ResolvedPaths
        IN
        /\ Len(sql.join.joins) = Len(resolved)
        /\ \A i \in 1..Len(resolved) :
               LET P == resolved[i]
                   target == TargetOf(entities, Last(P))
               IN /\ JoinOf(i).table = <<schema_name(target), table_name(target)>>
                  /\ JoinOf(i).alias = generate_table_alias(entities, P)
                  /\ JoinOf(i).left_alias =
                         IF Len(P) = 1 THEN split(data_set.entity)
                         ELSE generate_table_alias(entities, Prefix(P, Len(P) - 1))
                  /\ JoinOf(i).fk_column = LinkOf(entities, Last(P)).fk_column
                  /\ JoinOf(i).pk_column = pk_column_name(target)

\* Joins for a path of one link and for a path of two links whose left table
\* has an alias with a prefix.
C19_Witness ==
    /\ SqlGenerated
    /\ \E i, j \in 1..Len(ResolvedPaths) :
           /\ Len(ResolvedPaths[i]) = 1
           /\ Len(ResolvedPaths[j]) = 2
           /\ JoinOf(j).left_alias = <<"First", "order", "Order">>

\* The attributes connected_attributes lists, as <<path, attribute>>: those of
\* the empty path first, then those of each resolved path in the order of the
\* paths.
ListedAttributes ==
    LET connected == connected_attributes(entities, data_set, TRUE)
        listed_at(P) == IF P \in DOMAIN connected
                        THEN [i \in 1..Len(connected[P]) |-> <<P, connected[P][i]>>]
                        ELSE <<>>
        RECURSIVE from(_)
        from(k) == IF k > Len(ResolvedPaths) THEN <<>>
                   ELSE listed_at(ResolvedPaths[k]) \o from(k + 1)
    IN listed_at(<<>>) \o from(1)

\* The attribute object of a listed <<path, attribute>>.
AttributeOf(listed) ==
    LET entity == IF listed[1] = <<>> THEN data_set.entity
                  ELSE TargetOf(entities, Last(listed[1]))
    IN entities[entity].attributes[listed[2]]

FactTableGenerated == phase = "fact table generated"

\* The positions of the join foreign key columns that the statement selects for
\* the i-th resolved path: the foreign key column of its last link in the left
\* table of its join.
JoinForeignKeysOf(i) ==
    {k \in 1..Len(sql.foreign_keys) :
        /\ sql.foreign_keys[k].expression = "join foreign key"
        /\ sql.foreign_keys[k].table_alias = JoinOf(i).left_alias
        /\ sql.foreign_keys[k].column = JoinOf(i).fk_column}

\* The columns of the statement that select from the table of a path are
\* foreign key expressions of attributes with a template.
NoPlainAttributeOfPaths ==
    /\ \A k \in 1..Len(sql.attributes_and_metrics) :
           sql.attributes_and_metrics[k].table_alias = split(data_set.entity)
    /\ \A k \in 1..Len(sql.foreign_keys) :
           \/ sql.foreign_keys[k].expression = "join foreign key"
           \/ sql.foreign_keys[k].alias[Len(sql.foreign_keys[k].alias)] = "(FK)"

\* C21 as stated: the fact table statement selects exactly one join foreign key
\* column for every resolved path, also for a path without visible attribute,
\* and no plain attribute of a path.
C21_JoinForeignKeyForEveryPath ==
    FactTableGenerated =>
        /\ \A i \in 1..Len(ResolvedPaths) : Cardinality(JoinForeignKeysOf(i)) = 1
        /\ NoPlainAttributeOfPaths

\* C21, amended: the fact table statement selects exactly one join foreign key
\* column for every resolved path at which an attribute is visible and none for
\* a path at which no attribute is visible, and no plain attribute of a path.
C21_JoinForeignKeyForEveryListedPath ==
    FactTableGenerated =>
        LET connected == connected_attributes(entities, data_set, TRUE)
        IN /\ \A i \in 1..Len(ResolvedPaths) :
                  Cardinality(JoinForeignKeysOf(i)) =
                      IF ResolvedPaths[i] \in DOMAIN connected THEN 1 ELSE 0
           /\ NoPlainAttributeOfPaths

\* Order has an attribute that is not accessible over links, so that the path to
\* Order has a join but no column, and the path over it to Customer has both.
C21_Witness ==
    /\ FactTableGenerated
    /\ Len(ResolvedPaths) = 2
    /\ JoinForeignKeysOf(1) = {}
    /\ JoinForeignKeysOf(2) # {}
    /\ entities["Order"].attributes # <<>>

CubeDocument == phase = "cube document"

\* The attributes that are visible when personal data is not asked for, as
\* <<path, attribute>>: an attribute of the data set's entity that is not
\* personal data, and an attribute that passes the filters of a resolved path.
VisibleInCube ==
    {<<<<>>, a>> : a \in {a \in 1..Len(AttributesAt(<<>>)) :
                             ~AttributesAt(<<>>)[a].personal_data}}
    \cup UNION {{<<ResolvedPaths[i], a>> :
                    a \in {a \in 1..Len(AttributesAt(ResolvedPaths[i])) :
                              attribute_visible(entities, data_set, ResolvedPaths[i], a, FALSE)}} :
                i \in 1..Len(ResolvedPaths)}

\* The visible attributes that are to get a dimension.
DimensionAttributes ==
    {listed \in VisibleInCube :
        /\ AttributeOf(listed).type # <<"array">>
        /\ exclude_high_cardinality_dimension_from_mondrian_schema
               => ~AttributeOf(listed).high_cardinality}

\* `dimension` is the dimension of the listed attribute: it has its name, and
\* is templated for a type with a template, else private at the empty path,
\* else linked by the join foreign key of the path to the table and the
\* primary key of the entity that the path leads to.
IsDimensionOf(dimension, listed) ==
    LET path == listed[1]
        attribute == AttributeOf(listed)
    IN /\ dimension.name = generate_attribute_name(entities, attribute, path)
       /\ IF attribute.type \in {<<"date">>, <<"duration">>}
          THEN dimension.class = "TemplatedDimension"
          ELSE IF path = <<>>
          THEN dimension.class = "PrivateDimension"
          ELSE /\ dimension.class = "LinkedDimension"
               /\ dimension.foreign_key =
                      (IF Len(path) = 1 THEN split(data_set.entity)
                       ELSE generate_table_alias(entities, Prefix(path, Len(path) - 1)))
                      \o LinkOf(entities, Last(path)).fk_column
               /\ dimension.table_name = table_name(TargetOf(entities, Last(path)))
               /\ dimension.primary_key = pk_column_name(TargetOf(entities, Last(path)))

\* C22: the cube has one dimension for each visible attribute that is no ARRAY
\* and not of high cardinality, of the kind that the type and the path of the
\* attribute call for, and no other dimension.
C22_OneDimensionPerVisibleAttribute ==
    CubeBuilt =>
        /\ Len(cube.cube_dimensions) = Cardinality(DimensionAttributes)
        /\ \A listed \in DimensionAttributes :
               \E k \in 1..Len(cube.cube_dimensions) :
                   IsDimensionOf(cube.cube_dimensions[k], listed)

\* C23: the cube document is generated for every data set, and its default
\* measure is the name of the first metric of the data set.
C23_DocumentDeclaresFirstMetric ==
    CubeDocument =>
        /\ raised = ""
        /\ cube.xml_element # None
        /\ cube.xml_element.defaultMeasure = data_set.metrics[1].name

\* C24: normalizing a normalized name returns it unchanged.
C24_NormalizeIsIdempotent ==
    /\ Len(normalized.attribute_names) >= 2
           => normalized.attribute_names[2] = normalized.attribute_names[1]
    /\ Len(normalized.schema_names) >= 2
           => normalized.schema_names[2] = normalized.schema_names[1]

\* `result` is what the claim has for a `name` (collapsed and capitalized)
\* and a maximum length: the name when it is not longer, else a truncated part
\* of it and the 8 characters of its digest, as long as the maximum together.
IsLimitedTo(result, name, max_length) ==
    /\ Len(result) <= max_length
    /\ IF Len(name) > max_length
       THEN /\ Len(result) = max_length
            /\ \E k \in 0..Len(name) :
                   result = slice_to(name, k) \o slice_to(hexdigest(name), 8)
       ELSE result = name

\* C25: for every maximum length, the normalized name is not longer than the
\* maximum; a name that is too long is cut and gets the 8 characters of its
\* digest, to the length of the maximum exactly, and another name gets none.
C25_NormalizedNameIsLimited ==
    /\ normalized.attribute_names # <<>> /\ normalized.max_length # 0
           => IsLimitedTo(normalized.attribute_names[1],
                          attribute_name_before_limit(normalized.name),
                          normalized.max_length)
    /\ normalized.schema_names # <<>>
           => IsLimitedTo(normalized.schema_names[1],
                          schema_name_before_limit(normalized.name), MaxNameLength)

\* C26: generation is a function of the model: the star-schema statement that
\* is generated again for the unchanged model is the same, column by column.
C26_SecondRunReturnsTheSame ==
    [][FactTableGenerated /\ phase' = "fact table generated" => sql' = sql]_vars

\* The path without its last link.
ParentOf(path) == Prefix(path, Len(path) - 1)

\* C27: in the list of resolved paths a path of two or more links comes after
\* the path without its last link, and of two paths that differ in the last
\* link only the one whose last link was declared first comes first; so the
\* left alias of every LEFT JOIN of the statement is the alias of the data
\* set's entity or the alias of an earlier join.
C27_PathsInDepthFirstPreOrder ==
    LET resolved == ResolvedPaths
    IN /\ \A i \in 1..Len(resolved) :
              Len(resolved[i]) >= 2
                  => \E j \in 1..(i - 1) : resolved[j] = ParentOf(resolved[i])
       /\ \A i, j \in 1..Len(resolved) :
              /\ ParentOf(resolved[i]) = ParentOf(resolved[j])
              /\ Last(resolved[i])[2] < Last(resolved[j])[2]
              => i < j
       /\ SqlGenerated =>
              \A k \in 1..Len(sql.join.joins) :
                  \/ JoinOf(k).left_alias = sql.join.from.alias
                  \/ \E h \in 1..(k - 1) : JoinOf(h).alias = JoinOf(k).left_alias

\* A statement for two paths of one link, declared one after the other, and a
\* path of two links.
C27_Witness ==
    /\ SqlGenerated
    /\ \E i, j, k \in 1..Len(ResolvedPaths) :
           /\ Len(ResolvedPaths[i]) = 1
           /\ Len(ResolvedPaths[j]) = 1
           /\ i < j
           /\ Len(ResolvedPaths[k]) = 2
           /\ JoinOf(k).left_alias # sql.join.from.alias

\* C28: in the SQL expression of a composed metric a parent that does not come
\* after a division operator of the template, as the numerator of a ratio,
\* stands inside plain parentheses, without the zero guard.
C28_ParentBeforeDivisionIsPlain ==
    SqlGenerated =>
        \A k \in ComposedMetrics :
            \A j \in 1..Len(data_set.metrics[k].parent_metrics) :
                ~AfterDivision(data_set.metrics[k], j) =>
                    ParentWrappedIn(k, j, <<"(">>, <<")">>)

\* The entities that the links of the paths lead to.
TargetsOf(resolved) ==
    UNION {{TargetOf(entities, resolved[i][k]) : k \in 1..Len(resolved[i])} :
              i \in 1..Len(resolved)}

\* C29: without excluded paths and without a depth limit the entities that the
\* links of the resolved paths lead to, and the data set's entity, are the
\* entities that connected_entities finds from the data set's entity.
C29_PathsReachTheConnectedEntities ==
    Resolved /\ data_set.excluded_paths = {} /\ Depth = None =>
        /\ TargetsOf(paths) \cup {data_set.entity}
               = connected_entities(entities, data_set.entity)
        /\ TargetsOf(DataSet_paths_to_connected_entities(entities, data_set))
               \cup {data_set.entity}
               = connected_entities(entities, data_set.entity)

\* The data set's entity has a link to itself and then a link to the other
\* entity, which links back: the paths go around the cycle, and the discovery
\* finds both entities.
C29_Witness ==
    /\ Resolved /\ data_set.excluded_paths = {} /\ Depth = None
    /\ Len(entities[data_set.entity].entity_links) = 2
    /\ entities[data_set.entity].entity_links[1].target_entity = data_set.entity
    /\ connected_entities(entities, data_set.entity) = Entities
    /\ TargetsOf(paths) = Entities

\* No entity has two links with the same target entity and the same prefix.
LinksAreTellable ==
    \A e \in Entities :
        \A i, j \in 1..Len(entities[e].entity_links) :
            /\ entities[e].entity_links[i].target_entity
                   = entities[e].entity_links[j].target_entity
            /\ entities[e].entity_links[i].prefix = entities[e].entity_links[j].prefix
            => i = j

\* C30: when no entity has two links with the same target and prefix, the
\* joins of the statement have different aliases, none of them the alias of the
\* data set's entity.
C30_AliasesAreDifferent ==
    SqlGenerated /\ LinksAreTellable =>
        /\ \A i, j \in 1..Len(sql.join.joins) :
               JoinOf(i).alias = JoinOf(j).alias => i = j
        /\ \A i \in 1..Len(sql.join.joins) : JoinOf(i).alias # sql.join.from.alias

====
